---- MODULE Spec2Model ----
(***************************************************************************)
(* Code walkthrough extension: staleness detection (checkStaleness),       *)
(* repair (repairWalkthrough), the hunk-based line remapper               *)
(* (remapLineRange), rename lookup (getFileRenames) and the walkthrough   *)
(* loader, modelled from the TypeScript sources.                          *)
(*                                                                         *)
(* Conventions.  Optional strings of the source (commitSha, symbol, the   *)
(* HEAD sha) are "" when absent: the source tests them with !x, which is  *)
(* true of undefined, null and the empty string alike.  An absent         *)
(* contentHash is NoHash.  An absent resolvedLines is the empty tuple.    *)
(* A text is the sequence of its line pieces (the text split at "\n");    *)
(* the empty text is the single empty piece <<EmptyLine>>.                *)
(***************************************************************************)
EXTENDS Integers, Sequences, FiniteSets, TLC

VARIABLES
    workspace,    \* vscode.workspace.workspaceFolders is defined
    headSha,      \* what `git rev-parse HEAD` prints ("" when git fails)
    files,        \* path -> [exists, lines]: what openTextDocument gives
    diffOut,      \* path -> hunk headers printed by `git diff -U0 commitSha HEAD -- path`
    symbols,      \* path -> answer of vscode.executeDocumentSymbolProvider
    existsOld,    \* path -> answer of `git cat-file -e commitSha:path`
    renames,      \* path -> what `git diff --name-status -M commitSha HEAD -- path` does
    wt,           \* the walkthrough: [title, description, commitSha, steps]
    results,      \* what the last checkStaleness call returned
    staleCalls,   \* the external lookups the last checkStaleness call made
    repairOut,    \* what the last repairWalkthrough call returned
    repairCalls,  \* the external lookups the last repairWalkthrough call made
    saved,        \* the repair outcome last written back by saveRepairedWalkthrough
    rnPath,       \* rename lookup: the queried path
    rnOut,        \* rename lookup: what getFileRenames returned
    disk,         \* loader: the .walkthrough/*.json files, in findFiles order
    discovered,   \* loader: what discoverWalkthroughs returned
    loaded,       \* loader: what the last loadWalkthrough call returned
    warnings,     \* loader: the warning messages shown, in order
    rmOldLen,     \* remapper: number of lines of the old file
    rmScript,     \* remapper: the edits between the old and the new file
    rmRange,      \* remapper: the queried range <<oldStart, oldEnd>>
    rmOut,        \* remapper: what remapLineRange returned
    engine,       \* the PlaybackEngine: [walkthrough, currentIndex, state, autoAdvanceTimer, speed]
    timers,       \* the handles of the setTimeout timers that are set and have not fired
    navigated,    \* the step last given to navigateToStep by the engine.onChange handler
    autoplayFrom, \* the index at which the user stopped issuing commands (-1: still issuing)
    currentStaleResults,    \* extension: the verdicts kept for the panel and for navigation
    currentWalkthroughFile, \* extension: the file Repair works on
    tourFiles,    \* extension: uri -> the walkthrough held by the WalkthroughFile of that uri
    playbacks,    \* extension: the beginPlayback and repair handlers that are suspended
    lastLoad,     \* extension: the file, verdicts and consent of the last engine.load
    shown,        \* extension: the outdated-steps warnings shown and the answers given
    recorder,     \* the Recorder: [recording, steps, title, description]
    captures,     \* recorder: the captureStep calls made so far, each with where it stands
    saves,        \* recorder: the stop calls that are suspended inside save
    starts,       \* recorder: the start calls that are suspended at a prompt
    written,      \* recorder: the files that save has written, in order
    session,      \* recorder: the number of start calls that have taken effect
    toolRoot,     \* AI tools: the workspace root (its path segments)
    toolPath,     \* AI tools: the path argument of the tool call
    toolOut       \* AI tools: what the tool call did

envVars == <<workspace, headSha, files, diffOut, symbols, existsOld, renames>>
rmVars == <<rmOldLen, rmScript, rmRange, rmOut>>
rnVars == <<rnPath, rnOut>>
ldVars == <<disk, discovered, loaded, warnings>>
vars == <<workspace, headSha, files, diffOut, symbols, existsOld, renames, wt,
          results, staleCalls, repairOut, repairCalls, saved,
          rmOldLen, rmScript, rmRange, rmOut, rnPath, rnOut,
          disk, discovered, loaded, warnings,
          engine, timers, navigated, autoplayFrom,
          currentStaleResults, currentWalkthroughFile, tourFiles, playbacks, lastLoad, shown,
          recorder, captures, saves, starts, written, session,
          toolRoot, toolPath, toolOut>>
coreVars == <<envVars, wt, results, staleCalls, repairOut, repairCalls, saved,
              rmVars, rnVars, ldVars>>
engVars == <<engine, timers, navigated, autoplayFrom>>
extVars == <<currentStaleResults, currentWalkthroughFile, tourFiles, playbacks, lastLoad, shown>>
recVars == <<recorder, captures, saves, starts, written, session>>
toolVars == <<toolRoot, toolPath, toolOut>>
uiVars == <<engVars, extVars, recVars, toolVars>>

(***************************************************************************)
(* Bounds                                                                  *)
(***************************************************************************)
MaxLen == 2        \* longest current file, in lines
MaxLine == 2       \* largest line number a stored step names
MaxSteps == 2      \* longest step list
MaxOld == 4        \* remapper: longest old file
MaxHunks == 2      \* remapper: most hunks in one diff
MaxCount == 2      \* most lines one hunk deletes or inserts
MaxRecords == 2    \* rename lookup: most lines git prints
MaxFiles == 2      \* loader: most files under .walkthrough/
MaxTour == 3       \* engine: most steps of a loaded walkthrough
MaxSegments == 3   \* AI tools: most pieces of a path argument
MaxCaptures == 2   \* recorder: most captureStep calls
MaxSessions == 2   \* recorder: most start calls
MaxCalls == 2      \* extension: most suspended beginPlayback and repair calls
MaxTourFiles == 2  \* extension: walkthrough files in the workspace

Max(a, b) == IF a >= b THEN a ELSE b
Min(a, b) == IF a <= b THEN a ELSE b

Paths == {"a", "b"}
LineVals == {1, 2}          \* contents of a (non-empty) line
EmptyLine == 0              \* the empty piece ""
NoHash == 0

RECURSIVE SeqsUpTo(_, _)
\* all sequences over S of length 0..n
SeqsUpTo(S, n) ==
    IF n = 0 THEN {<<>>}
    ELSE LET shorter == SeqsUpTo(S, n - 1)
         IN  shorter \cup {Append(q, x) : q \in {r \in shorter : Len(r) = n - 1}, x \in S}

\* the one element of a one-element set: Only({e(x) : x \in {v}}) is e(v) with
\* v computed once
Only(S) == CHOOSE x \in S : TRUE

RECURSIVE SumSeq(_)
SumSeq(q) == IF q = <<>> THEN 0 ELSE Head(q) + SumSeq(Tail(q))

RECURSIVE Flatten(_)
Flatten(qq) == IF qq = <<>> THEN <<>> ELSE Head(qq) \o Flatten(Tail(qq))

(***************************************************************************)
(* git.ts: hunk headers and remapLineRange                                 *)
(***************************************************************************)
\* An edit of the old file: delete `del` lines starting at line `pos` and put
\* `ins` new lines in their place; with del = 0 the new lines go after line
\* pos (pos = 0: before the first line).
Edit(pos, del, ins) == [pos |-> pos, del |-> del, ins |-> ins]

FirstKeptAfter(e) == IF e.del > 0 THEN e.pos + e.del ELSE e.pos + 1
LastKeptBefore(e) == IF e.del > 0 THEN e.pos - 1 ELSE e.pos

EditsOf(n) ==
    {Edit(pos, del, ins) : pos \in 0..n, del \in 0..MaxCount, ins \in 0..MaxCount}

ValidEdit(n, e) ==
    /\ e.del + e.ins > 0
    /\ e.del > 0 => (e.pos >= 1 /\ e.pos + e.del - 1 <= n)

\* A zero-context diff: edits in ascending order, two consecutive edits
\* separated by at least one unchanged line (git joins adjacent changes
\* into one hunk).
ValidScript(n, sc) ==
    /\ \A i \in 1..Len(sc) : ValidEdit(n, sc[i])
    /\ \A i \in 1..(Len(sc) - 1) : FirstKeptAfter(sc[i]) <= LastKeptBefore(sc[i + 1])

Scripts(n, k) == {sc \in SeqsUpTo({e \in EditsOf(n) : ValidEdit(n, e)}, k) : ValidScript(n, sc)}

\* Net line delta of the first k edits.
DeltaBefore(sc, k) == SumSeq([i \in 1..(k - 1) |-> sc[i].ins - sc[i].del])

\* A count as the header prints it: git leaves the ",count" out when it is 1.
Omitted == -1
ShownCount(c) == IF c = 1 THEN Omitted ELSE c

\* The "@@ -oldStart,oldCount +newStart,newCount @@" lines of `git diff -U0`.
\* A side with count 0 names the line BEFORE the change.
GitDiffU0(sc) ==
    [k \in 1..Len(sc) |->
        LET e == sc[k]
            d == DeltaBefore(sc, k)
            oldLine == e.pos
            firstNew == (IF e.del > 0 THEN e.pos ELSE e.pos + 1) + d
        IN  [oldStart |-> oldLine,
             oldCount |-> ShownCount(e.del),
             newStart |-> IF e.ins > 0 THEN firstNew ELSE firstNew - 1,
             newCount |-> ShownCount(e.ins)]]

parseHunkHeaders_defaultZero(diffOutput) ==
    [k \in 1..Len(diffOutput) |->
        [oldStart |-> diffOutput[k].oldStart,
         oldCount |-> IF diffOutput[k].oldCount = Omitted THEN 0 ELSE diffOutput[k].oldCount,
         newStart |-> diffOutput[k].newStart,
         newCount |-> IF diffOutput[k].newCount = Omitted THEN 0 ELSE diffOutput[k].newCount]]

parseHunkHeaders(diffOutput) ==
    [k \in 1..Len(diffOutput) |->
        [oldStart |-> diffOutput[k].oldStart,
         oldCount |-> IF diffOutput[k].oldCount = Omitted THEN 1 ELSE diffOutput[k].oldCount,
         newStart |-> diffOutput[k].newStart,
         newCount |-> IF diffOutput[k].newCount = Omitted THEN 1 ELSE diffOutput[k].newCount]]

RECURSIVE remapOffset(_, _, _, _)
\* the loop of remapLineRange from hunk k on
remapOffset(oldStart, oldEnd, mappings, k) ==
    IF k > Len(mappings) THEN 0
    ELSE LET hunk == mappings[k]
             hunkOldEnd == hunk.oldStart + hunk.oldCount
         IN  IF hunkOldEnd <= oldStart
             THEN (hunk.newCount - hunk.oldCount) + remapOffset(oldStart, oldEnd, mappings, k + 1)
             ELSE IF hunk.oldStart > oldEnd
                  THEN 0
                  ELSE (hunk.newCount - hunk.oldCount)
                       + remapOffset(oldStart, oldEnd, mappings, k + 1)

RECURSIVE remapOffset_skipOverlap(_, _, _, _)
remapOffset_skipOverlap(oldStart, oldEnd, mappings, k) ==
    IF k > Len(mappings) THEN 0
    ELSE LET hunk == mappings[k]
             hunkOldEnd == hunk.oldStart + hunk.oldCount
         IN  IF hunkOldEnd <= oldStart
             THEN (hunk.newCount - hunk.oldCount)
                  + remapOffset_skipOverlap(oldStart, oldEnd, mappings, k + 1)
             ELSE IF hunk.oldStart > oldEnd
                  THEN 0
                  ELSE remapOffset_skipOverlap(oldStart, oldEnd, mappings, k + 1)

remapLineRange_skipOverlap(oldStart, oldEnd, mappings) ==
    LET offset == remapOffset_skipOverlap(oldStart, oldEnd, mappings, 1)
    IN  <<oldStart + offset, oldEnd + offset>>

remapLineRange(oldStart, oldEnd, mappings) ==
    LET offset == remapOffset(oldStart, oldEnd, mappings, 1)
    IN  <<oldStart + offset, oldEnd + offset>>

\* The new file that the edits produce, each line tagged with the number it
\* had in the old file (0 for an inserted line).
NewFileOf(n, sc) ==
    LET Inserted(c) == [j \in 1..c |-> 0]
        Deleted(k) == \E i \in 1..Len(sc) :
                          sc[i].del > 0 /\ sc[i].pos <= k /\ k < sc[i].pos + sc[i].del
        Replacement(k) == IF \E i \in 1..Len(sc) : sc[i].del > 0 /\ sc[i].pos = k
                          THEN Inserted((CHOOSE e \in {sc[i] : i \in 1..Len(sc)} :
                                            e.del > 0 /\ e.pos = k).ins)
                          ELSE <<>>
        After(k) == IF \E i \in 1..Len(sc) : sc[i].del = 0 /\ sc[i].pos = k
                    THEN Inserted((CHOOSE e \in {sc[i] : i \in 1..Len(sc)} :
                                      e.del = 0 /\ e.pos = k).ins)
                    ELSE <<>>
        Piece(k) == (IF k = 0 THEN <<>>
                     ELSE IF Deleted(k) THEN Replacement(k) ELSE <<k>>) \o After(k)
    IN  Flatten([j \in 1..(n + 1) |-> Piece(j - 1)])

\* The number that old line k has in the new file (0 when it was deleted).
NewLineOf(n, sc, k) ==
    LET nf == NewFileOf(n, sc)
    IN  IF \E i \in 1..Len(nf) : nf[i] = k
        THEN CHOOSE i \in 1..Len(nf) : nf[i] = k
        ELSE 0

(***************************************************************************)
(* Text documents (vscode.TextDocument) and fingerprints                   *)
(***************************************************************************)
Doc(ls) == [exists |-> TRUE, lines |-> ls]
NoFile == [exists |-> FALSE, lines |-> <<>>]

\* doc.getText(new vscode.Range(startLine, 0, endLine, doc.lineAt(endLine).text.length))
\* for 0-based lines with startLine >= 0 and 0 <= endLine < lineCount.  The
\* Range constructor swaps its two positions when the start lies after the
\* end, and getText moves a position past the last line to the end of the
\* document.
getText(lines, startLine, endLine) ==
    LET lineCount == Len(lines)
    IN  IF startLine <= endLine
        THEN SubSeq(lines, startLine + 1, endLine + 1)
        ELSE IF startLine >= lineCount
             THEN IF endLine = lineCount - 1
                  THEN <<EmptyLine>>
                  ELSE <<EmptyLine>> \o SubSeq(lines, endLine + 2, lineCount)
             ELSE <<EmptyLine>> \o SubSeq(lines, endLine + 2, startLine) \o <<EmptyLine>>

RECURSIVE digest(_, _)
\* crypto.createHash("sha256").update(text).digest("hex").slice(0, 12): a
\* number that two different texts never share.
digest(text, acc) ==
    IF text = <<>> THEN acc
    ELSE digest(Tail(text), acc * (Cardinality(LineVals) + 1) + Head(text))

Hash(text) == digest(text, 1)

(***************************************************************************)
(* staleness.ts: checkStaleness                                            *)
(***************************************************************************)
Verdict_oneBased(i, status, resolved, detail) ==
    [stepIndex |-> i + 1, status |-> status, resolvedLines |-> resolved, detail |-> detail]

Verdict(i, status, resolved, detail) ==
    [stepIndex |-> i, status |-> status, resolvedLines |-> resolved, detail |-> detail]

Call(op, file, i) == [op |-> op, file |-> file, step |-> i]

getHeadSha == IF ~workspace THEN "" ELSE headSha

computeLineMappings(fromSha, toSha, filePath) ==
    IF ~workspace THEN <<>> ELSE parseHunkHeaders(diffOut[filePath])

checkContentHash_oneBased(lines, step) ==
    LET startLine == Max(0, step.lines[1])
        endLine == Min(Len(lines) - 1, step.lines[2])
    IN  IF endLine < 0
        THEN [threw |-> TRUE, match |-> FALSE]
        ELSE [threw |-> FALSE,
              match |-> Hash(getText(lines, startLine, endLine)) = step.contentHash]

\* [threw, match]: lineAt throws when the end line index is negative.
checkContentHash(lines, step) ==
    LET startLine == Max(0, step.lines[1] - 1)
        endLine == Min(Len(lines) - 1, step.lines[2] - 1)
    IN  IF endLine < 0
        THEN [threw |-> TRUE, match |-> FALSE]
        ELSE [threw |-> FALSE,
              match |-> Hash(getText(lines, startLine, endLine)) = step.contentHash]

RECURSIVE findSymbolByName_siblingsFirst(_, _)
findSymbolByName_siblingsFirst(syms, name) ==
    IF syms = <<>> THEN [found |-> FALSE, line |-> 0]
    ELSE LET sym == Head(syms)
         IN  IF sym.name = name
             THEN [found |-> TRUE, line |-> sym.line]
             ELSE LET rest == findSymbolByName_siblingsFirst(Tail(syms), name)
                  IN  IF rest.found THEN rest
                      ELSE findSymbolByName_siblingsFirst(sym.children, name)

findSymbolByName_anyName(syms, name) ==
    IF syms = <<>> THEN [found |-> FALSE, line |-> 0]
    ELSE [found |-> TRUE, line |-> Head(syms).line]

RECURSIVE findSymbolByName(_, _)
\* depth-first search of the symbol tree; line is range.start.line (0-based)
findSymbolByName(syms, name) ==
    IF syms = <<>> THEN [found |-> FALSE, line |-> 0]
    ELSE LET sym == Head(syms)
         IN  IF sym.name = name
             THEN [found |-> TRUE, line |-> sym.line]
             ELSE LET child == findSymbolByName(sym.children, name)
                  IN  IF child.found THEN child
                      ELSE findSymbolByName(Tail(syms), name)

\* [called, range]: range is <<>> for null
findBySymbol(file, step) ==
    IF step.symbol = ""
    THEN [called |-> FALSE, range |-> <<>>]
    ELSE LET answer == symbols[file]
             match == findSymbolByName(answer.syms, step.symbol)
             lineSpan == step.lines[2] - step.lines[1]
         IN  [called |-> TRUE,
              range |-> IF answer.kind = "list" /\ match.found
                        THEN <<match.line + 1, match.line + 1 + lineSpan>>
                        ELSE <<>>]

clampStart_bounded(newStart, lineCount) == Min(lineCount, Max(1, newStart))

clampStart(newStart, lineCount) == Max(1, newStart)

clampEnd(clampedStart, newEnd, lineCount) == Min(lineCount, Max(clampedStart, newEnd))

\* mappingsCache.get(key) !== undefined: an empty hunk list is an entry too
cacheHas_emptyIsMiss(cache, key) == key \in DOMAIN cache /\ cache[key] # <<>>

cacheHas(cache, key) == key \in DOMAIN cache

cacheGet(cache, key, fresh) == IF cacheHas(cache, key) THEN cache[key] ELSE fresh

cachePut(cache, key, val) ==
    [k \in (DOMAIN cache) \cup {key} |-> IF k = key THEN val ELSE cache[k]]

\* The symbol tier and the final fallback (lines 129-144).
symbolTier(step, i, cache, calls) ==
    LET sm == findBySymbol(step.file, step)
        calls2 == IF sm.called THEN Append(calls, Call("symbols", step.file, i)) ELSE calls
    IN  [threw |-> FALSE,
         verdict |-> IF sm.range # <<>>
                     THEN Verdict(i, "drifted", sm.range, "Symbol")
                     ELSE Verdict(i, "drifted", <<>>, "Content hash mismatch"),
         cache |-> cache, calls |-> calls2]

\* mappings.length > 0 (line 85)
hasDiffData_moreThanOne(mappings) == Len(mappings) > 1

hasDiffData(mappings) == Len(mappings) > 0

\* The verdict of the revision-diff tier (lines 109-125).
remappedVerdict_noRange(i, contentHash, remappedHash, clampedStart, clampedEnd) ==
    IF remappedHash = contentHash
    THEN Verdict(i, "git-resolved", <<clampedStart, clampedEnd>>, "Git resolved")
    ELSE Verdict(i, "drifted", <<>>, "Git remapped")

remappedVerdict(i, contentHash, remappedHash, clampedStart, clampedEnd) ==
    IF remappedHash = contentHash
    THEN Verdict(i, "git-resolved", <<clampedStart, clampedEnd>>, "Git resolved")
    ELSE Verdict(i, "drifted", <<clampedStart, clampedEnd>>, "Git remapped")

\* The revision-diff tier (lines 78-127), falling through to the symbol tier.
gitTier(step, i, lines, commitSha, head, cache, calls) ==
    LET cached == cacheHas(cache, step.file)
        mappings == cacheGet(cache, step.file, computeLineMappings(commitSha, head, step.file))
        cache2 == cachePut(cache, step.file, mappings)
        calls2 == IF cached THEN calls ELSE Append(calls, Call("diff", step.file, i))
        new == remapLineRange(step.lines[1], step.lines[2], mappings)
        clampedStart == clampStart(new[1], Len(lines))
        clampedEnd == clampEnd(clampedStart, new[2], Len(lines))
        remappedHash == Hash(getText(lines, clampedStart - 1, clampedEnd - 1))
    IN  IF hasDiffData(mappings)
        THEN [threw |-> FALSE,
              verdict |-> remappedVerdict(i, step.contentHash, remappedHash,
                                          clampedStart, clampedEnd),
              cache |-> cache2, calls |-> calls2]
        ELSE symbolTier(step, i, cache2, calls2)

\* !!commitSha && !!headSha && commitSha !== headSha (line 56)
canUseGit(commitSha, head) == commitSha # "" /\ head # "" /\ commitSha # head

\* step.contentHash is set (line 67)
hasContentHash_always(step) == TRUE

hasContentHash(step) == step.contentHash # NoHash

\* The body of the try block for step i (lines 65-144).
tryStep(step, i, commitSha, head, cache, calls) ==
    LET doc == files[step.file]
        opened == Append(calls, Call("open", step.file, i))
        hashMatch == checkContentHash(doc.lines, step)
        read == Append(opened, Call("read", step.file, i))
    IN  IF ~doc.exists
        THEN [threw |-> TRUE, verdict |-> Verdict(i, "", <<>>, ""),
              cache |-> cache, calls |-> opened]
        ELSE IF ~hasContentHash(step)
        THEN [threw |-> FALSE, verdict |-> Verdict(i, "fresh", <<>>, ""),
              cache |-> cache, calls |-> opened]
        ELSE IF hashMatch.threw
        THEN [threw |-> TRUE, verdict |-> Verdict(i, "", <<>>, ""),
              cache |-> cache, calls |-> read]
        ELSE IF hashMatch.match
        THEN [threw |-> FALSE, verdict |-> Verdict(i, "fresh", <<>>, ""),
              cache |-> cache, calls |-> read]
        ELSE IF canUseGit(commitSha, head)
        THEN gitTier(step, i, doc.lines, commitSha, head, cache, read)
        ELSE symbolTier(step, i, cache, read)

staleStep_noCatch(step, i, commitSha, head, cache, calls) ==
    tryStep(step, i, commitSha, head, cache, calls)

\* One iteration of the loop: the try block and its catch (lines 64-151).
staleStep(step, i, commitSha, head, cache, calls) ==
    LET body == tryStep(step, i, commitSha, head, cache, calls)
    IN  IF body.threw
        THEN [body EXCEPT !.threw = FALSE,
                          !.verdict = Verdict(i, "missing", <<>>, "File not found")]
        ELSE body

RECURSIVE staleLoop(_, _, _, _, _)
\* the for loop from index i (0-based) on; acc = [threw, out, cache, calls]
staleLoop(steps, i, commitSha, head, acc) ==
    IF i >= Len(steps) \/ acc.threw THEN acc
    ELSE Only({staleLoop(steps, i + 1, commitSha, head,
                         [threw |-> r.threw,
                          out |-> IF r.threw THEN acc.out ELSE Append(acc.out, r.verdict),
                          cache |-> r.cache, calls |-> r.calls]) :
                  r \in {staleStep(steps[i + 1], i, commitSha, head, acc.cache, acc.calls)}})

EmptyCache == [k \in {} |-> <<>>]

\* checkStaleness(steps, commitSha): [threw, out, cache, calls]
checkStaleness(steps, commitSha) ==
    IF ~workspace
    THEN [threw |-> FALSE,
          out |-> [k \in 1..Len(steps) |-> Verdict(k - 1, "missing", <<>>, "No workspace open")],
          cache |-> EmptyCache, calls |-> <<>>]
    ELSE staleLoop(steps, 0, commitSha, getHeadSha,
                   [threw |-> FALSE, out |-> <<>>, cache |-> EmptyCache, calls |-> <<>>])

NotRun == [ran |-> FALSE, threw |-> FALSE, out |-> <<>>]

CheckStaleness ==
    \E r \in {checkStaleness(wt.steps, wt.commitSha)} :
        /\ results' = [ran |-> TRUE, threw |-> r.threw, out |-> r.out]
        /\ staleCalls' = r.calls
        /\ UNCHANGED <<envVars, wt, repairOut, repairCalls, saved, rmVars, rnVars, ldVars, uiVars>>

(***************************************************************************)
(* The remapper on its own: a range of an old file and a zero-context diff *)
(***************************************************************************)
RemapLineRange ==
    /\ rmOut = <<>>
    /\ rmOut' = remapLineRange(rmRange[1], rmRange[2], parseHunkHeaders(GitDiffU0(rmScript)))
    /\ UNCHANGED <<rmOldLen, rmScript, rmRange>>
    /\ UNCHANGED <<envVars, wt, results, staleCalls, repairOut, repairCalls, saved>>
    /\ UNCHANGED <<rnVars, ldVars, uiVars>>

(***************************************************************************)
(* repair.ts: repairWalkthrough                                            *)
(***************************************************************************)
fileExistsAtCommit(sha, filePath) == IF ~workspace THEN FALSE ELSE existsOld[filePath]

\* One line of `git diff --name-status -M`: "R<score> <from> <to>" for a
\* rename (from is the name at fromSha, to the name at toSha), and
\* "<status> <path>" for anything else (to is "").
StatusLine(status, from, to) == [status |-> status, from |-> from, to |-> to]

\* what running git gave: its output lines, or a failure (exec rejects)
GitOutput(lines) == [failed |-> FALSE, stdout |-> lines]

GitFailure == [failed |-> TRUE, stdout |-> <<>>]

\* line.match(/^R\d*\t(.+)\t(.+)$/) (line 142)
renameMatch(line) == line.status = "R" /\ line.from # "" /\ line.to # ""

RECURSIVE scanRenames(_, _)
\* the loop over the output lines (lines 141-151); "" when it falls through
scanRenames(lines, filePath) ==
    IF lines = <<>> THEN ""
    ELSE IF renameMatch(Head(lines)) /\ Head(lines).from = filePath THEN Head(lines).to
    ELSE IF renameMatch(Head(lines)) /\ Head(lines).to = filePath THEN Head(lines).from
    ELSE scanRenames(Tail(lines), filePath)

\* "" stands for null
getFileRenames(fromSha, toSha, filePath) ==
    IF ~workspace THEN ""
    ELSE IF renames[filePath].failed THEN ""
    ELSE scanRenames(renames[filePath].stdout, filePath)

\* the step pushed when hunks were found (lines 136-141)
remappedFix_keepHash(step, currentFile, clampedStart, clampedEnd, remappedHash) ==
    [step EXCEPT !.file = currentFile, !.lines = <<clampedStart, clampedEnd>>]

remappedFix_dropSymbol(step, currentFile, clampedStart, clampedEnd, remappedHash) ==
    [file |-> currentFile, lines |-> <<clampedStart, clampedEnd>>, symbol |-> "",
     contentHash |-> remappedHash, subtitle |-> step.subtitle, duration |-> step.duration]

remappedFix(step, currentFile, clampedStart, clampedEnd, remappedHash) ==
    [step EXCEPT !.file = currentFile,
                 !.lines = <<clampedStart, clampedEnd>>,
                 !.contentHash = remappedHash]

\* the step pushed when no hunks were found (lines 146-150)
pathOnlyFix_keepHash(step, currentFile, currentHash) == [step EXCEPT !.file = currentFile]

pathOnlyFix(step, currentFile, currentHash) ==
    [step EXCEPT !.file = currentFile, !.contentHash = currentHash]

\* One iteration of the loop (lines 63-152):
\* [threw, step, fixed, unresolvable, cache, calls]
repairStep(step, i, oldSha, newSha, cache, calls) ==
    LET existsAtOld == fileExistsAtCommit(oldSha, step.file)
        renamed == IF existsAtOld THEN getFileRenames(oldSha, newSha, step.file) ELSE ""
        currentFile == IF renamed # "" THEN renamed ELSE step.file
        calls1 == Append(calls, Call("exists", step.file, i))
        calls2 == IF existsAtOld THEN Append(calls1, Call("renames", step.file, i)) ELSE calls1
        opened == Append(calls2, Call("open", currentFile, i))
        doc == files[currentFile]
        lineCount == Len(doc.lines)
        endLine == Min(lineCount - 1, step.lines[2] - 1)
        currentHash == Hash(getText(doc.lines, Max(0, step.lines[1] - 1), endLine))
        cached == cacheHas(cache, currentFile)
        mappings == cacheGet(cache, currentFile, computeLineMappings(oldSha, newSha, step.file))
        cache2 == cachePut(cache, currentFile, mappings)
        calls3 == IF cached THEN opened ELSE Append(opened, Call("diff", step.file, i))
        new == remapLineRange(step.lines[1], step.lines[2], mappings)
        clampedStart == clampStart(new[1], lineCount)
        clampedEnd == clampEnd(clampedStart, new[2], lineCount)
        remappedHash == Hash(getText(doc.lines, clampedStart - 1, clampedEnd - 1))
    IN  IF ~doc.exists
        THEN [threw |-> FALSE, step |-> step, fixed |-> 0, unresolvable |-> 1,
              cache |-> cache, calls |-> opened]
        ELSE IF endLine < 0
        THEN [threw |-> TRUE, step |-> step, fixed |-> 0, unresolvable |-> 0,
              cache |-> cache, calls |-> opened]
        ELSE IF currentHash = step.contentHash /\ currentFile = step.file
        THEN [threw |-> FALSE, step |-> step, fixed |-> 0, unresolvable |-> 0,
              cache |-> cache, calls |-> opened]
        ELSE IF Len(mappings) > 0
        THEN [threw |-> FALSE,
              step |-> remappedFix(step, currentFile, clampedStart, clampedEnd, remappedHash),
              fixed |-> 1, unresolvable |-> 0, cache |-> cache2, calls |-> calls3]
        ELSE [threw |-> FALSE,
              step |-> pathOnlyFix(step, currentFile, currentHash),
              fixed |-> 0, unresolvable |-> 1, cache |-> cache2, calls |-> calls3]

RECURSIVE repairLoop(_, _, _, _, _)
\* the for loop from index i (0-based) on;
\* acc = [threw, steps, fixed, unresolvable, cache, calls]
repairLoop(steps, i, oldSha, newSha, acc) ==
    IF i >= Len(steps) \/ acc.threw THEN acc
    ELSE Only({repairLoop(steps, i + 1, oldSha, newSha,
                          [threw |-> r.threw,
                           steps |-> IF r.threw THEN acc.steps ELSE Append(acc.steps, r.step),
                           fixed |-> acc.fixed + r.fixed,
                           unresolvable |-> acc.unresolvable + r.unresolvable,
                           cache |-> r.cache, calls |-> r.calls]) :
                  r \in {repairStep(steps[i + 1], i, oldSha, newSha, acc.cache, acc.calls)}})

RepairResult(threw, repaired, fixed, unresolvable, walkthrough) ==
    [ran |-> TRUE, threw |-> threw, repaired |-> repaired, stepsFixed |-> fixed,
     stepsUnresolvable |-> unresolvable, walkthrough |-> walkthrough]

\* the outcome of the first and third early exits (lines 29-34, 48-53)
totalFailure_noneUnresolved(walkthrough) == RepairResult(FALSE, FALSE, 0, 0, walkthrough)

totalFailure(walkthrough) ==
    RepairResult(FALSE, FALSE, 0, Len(walkthrough.steps), walkthrough)

\* oldSha === newSha (line 37)
sameRevision_never(oldSha, newSha) == FALSE

sameRevision(oldSha, newSha) == oldSha = newSha

\* the walkthrough returned after the loop (lines 154-158)
rebased_keepSha(walkthrough, newSha, repairedSteps) ==
    [walkthrough EXCEPT !.steps = repairedSteps]

rebased(walkthrough, newSha, repairedSteps) ==
    [walkthrough EXCEPT !.commitSha = newSha, !.steps = repairedSteps]

\* stepsFixed > 0 || stepsUnresolvable === 0 (line 161)
isRepaired_allResolved(stepsFixed, stepsUnresolvable) == stepsUnresolvable = 0

isRepaired(stepsFixed, stepsUnresolvable) == stepsFixed > 0 \/ stepsUnresolvable = 0

\* repairWalkthrough(walkthroughFile): [result, calls]
repairWalkthrough(walkthrough) ==
    LET oldSha == walkthrough.commitSha
        newSha == getHeadSha
    IN  IF oldSha = "" \/ newSha = ""
        THEN [result |-> totalFailure(walkthrough), calls |-> <<>>]
        ELSE IF sameRevision(oldSha, newSha)
        THEN [result |-> RepairResult(FALSE, TRUE, 0, 0, walkthrough), calls |-> <<>>]
        ELSE IF ~workspace
        THEN [result |-> totalFailure(walkthrough), calls |-> <<>>]
        ELSE Only({IF loop.threw
                   THEN [result |-> RepairResult(TRUE, FALSE, 0, 0, walkthrough),
                         calls |-> loop.calls]
                   ELSE [result |-> RepairResult(FALSE,
                                                 isRepaired(loop.fixed, loop.unresolvable),
                                                 loop.fixed, loop.unresolvable,
                                                 rebased(walkthrough, newSha, loop.steps)),
                         calls |-> loop.calls] :
                       loop \in {repairLoop(walkthrough.steps, 0, oldSha, newSha,
                                            [threw |-> FALSE, steps |-> <<>>, fixed |-> 0,
                                             unresolvable |-> 0, cache |-> EmptyCache,
                                             calls |-> <<>>])}})

NoRepair ==
    [ran |-> FALSE, threw |-> FALSE, repaired |-> FALSE, stepsFixed |-> 0,
     stepsUnresolvable |-> 0,
     walkthrough |-> [title |-> "", description |-> "", commitSha |-> "", steps |-> <<>>]]

RepairWalkthrough ==
    \E r \in {repairWalkthrough(wt)} :
        /\ repairOut' = r.result
        /\ repairCalls' = r.calls
        /\ UNCHANGED <<envVars, wt, results, staleCalls, saved, rmVars, rnVars, ldVars, uiVars>>

\* executor.ts: repairCurrentWalkthroughAndReload (lines 1162-1188).  A result
\* that fixed a step or counts as repaired is written back with
\* saveRepairedWalkthrough, becomes the current walkthrough and is checked
\* again; a repair that rejects ends the handler.
RepairAndReload ==
    \E r \in {repairWalkthrough(wt)} :
        \E repairedWalkthrough \in {r.result.walkthrough} :
            \E s \in {checkStaleness(repairedWalkthrough.steps, repairedWalkthrough.commitSha)} :
                LET keep == ~r.result.threw /\ (r.result.stepsFixed > 0 \/ r.result.repaired)
                IN  /\ repairOut' = r.result
                    /\ repairCalls' = r.calls
                    /\ saved' = IF keep THEN r.result ELSE saved
                    /\ wt' = IF keep THEN repairedWalkthrough ELSE wt
                    /\ results' = IF keep
                                  THEN [ran |-> TRUE, threw |-> s.threw, out |-> s.out]
                                  ELSE results
                    /\ staleCalls' = IF keep THEN s.calls ELSE staleCalls
                    /\ UNCHANGED <<envVars, rmVars, rnVars, ldVars, uiVars>>

(***************************************************************************)
(* git.ts: getFileRenames on its own                                       *)
(***************************************************************************)
NotAsked == [asked |-> FALSE, path |-> ""]

GetFileRenames ==
    /\ ~rnOut.asked
    /\ rnOut' = [asked |-> TRUE, path |-> getFileRenames("r1", "r2", rnPath)]
    /\ UNCHANGED <<rnPath, envVars, wt, results, staleCalls, repairOut, repairCalls, saved>>
    /\ UNCHANGED <<rmVars, ldVars, uiVars>>

(***************************************************************************)
(* loader.ts: isValidStep, isValidWalkthrough, discoverWalkthroughs,       *)
(* loadWalkthrough                                                         *)
(***************************************************************************)
\* A parsed JSON property as far as the loader looks at it: what typeof says
\* of it and its text or number.  A property that is not there is undefined.
JString(str) == [type |-> "string", str |-> str, num |-> 0]

JNumber(num) == [type |-> "number", str |-> "", num |-> num]

JUndefined == [type |-> "undefined", str |-> "", num |-> 0]

\* A property that should hold an array: Array.isArray of it and its elements.
JList(items) == [isArray |-> TRUE, items |-> items]

JNotAList == [isArray |-> FALSE, items |-> <<>>]

\* An element of steps: an object with these properties, or something else.
StepData(file, lines, subtitle) ==
    [isObject |-> TRUE, file |-> file, lines |-> lines, subtitle |-> subtitle]

NotAStep ==
    [isObject |-> FALSE, file |-> JUndefined, lines |-> JNotAList, subtitle |-> JUndefined]

\* The parsed document: an object with these properties, or something else.
TourData(title, description, steps) ==
    [isObject |-> TRUE, title |-> title, description |-> description, steps |-> steps]

NotATour ==
    [isObject |-> FALSE, title |-> JUndefined, description |-> JUndefined,
     steps |-> JNotAList]

isValidStep_anyLines(step) ==
    /\ step.isObject
    /\ step.file.type = "string"
    /\ step.lines.isArray
    /\ step.subtitle.type = "string"

isValidStep(step) ==
    /\ step.isObject
    /\ step.file.type = "string"
    /\ step.lines.isArray
    /\ Len(step.lines.items) = 2
    /\ step.lines.items[1].type = "number"
    /\ step.lines.items[2].type = "number"
    /\ step.subtitle.type = "string"

isValidWalkthrough(data) ==
    /\ data.isObject
    /\ data.title.type = "string"
    /\ data.description.type = "string"
    /\ data.steps.isArray
    /\ Len(data.steps.items) > 0
    /\ \A k \in 1..Len(data.steps.items) : isValidStep(data.steps.items[k])

\* A file under .walkthrough/: whether readFile succeeds, whether JSON.parse
\* succeeds, and the parsed document.  A file is named by its place in disk.
DiskFile(readable, parses, data) == [readable |-> readable, parses |-> parses, data |-> data]

Unreadable == DiskFile(FALSE, FALSE, NotATour)

Unparsable == DiskFile(TRUE, FALSE, NotATour)

Warning(message, fsPath) == [message |-> message, file |-> fsPath]

RECURSIVE discoverLoop(_, _, _)
\* the for loop from file k on (lines 42-61); acc = [results, warnings]
discoverLoop(found, k, acc) ==
    IF k > Len(found) THEN acc
    ELSE LET file == found[k]
         IN  discoverLoop(found, k + 1,
                 IF ~file.readable \/ ~file.parses
                 THEN [acc EXCEPT !.warnings = Append(@, Warning("Failed to parse", k))]
                 ELSE IF ~isValidWalkthrough(file.data)
                 THEN [acc EXCEPT !.warnings = Append(@, Warning("Invalid walkthrough", k))]
                 ELSE [acc EXCEPT !.results =
                                      Append(@, [uri |-> k, walkthrough |-> file.data])])

discoverWalkthroughs == discoverLoop(disk, 1, [results |-> <<>>, warnings |-> <<>>])

\* [isNull, walkthrough, warnings]; a path that names no file cannot be read
loadWalkthrough(fsPath) ==
    LET file == IF fsPath \in 1..Len(disk) THEN disk[fsPath] ELSE Unreadable
    IN  IF ~file.readable \/ ~file.parses
        THEN [isNull |-> TRUE, walkthrough |-> NotATour,
              warnings |-> <<Warning("Failed to load", fsPath)>>]
        ELSE IF ~isValidWalkthrough(file.data)
        THEN [isNull |-> TRUE, walkthrough |-> NotATour,
              warnings |-> <<Warning("Invalid walkthrough", fsPath)>>]
        ELSE [isNull |-> FALSE, walkthrough |-> file.data, warnings |-> <<>>]

NotDiscovered == [ran |-> FALSE, files |-> <<>>]

NotLoaded == [ran |-> FALSE, fsPath |-> 0, isNull |-> TRUE, walkthrough |-> NotATour]

DiscoverWalkthroughs ==
    LET r == discoverWalkthroughs
    IN  /\ discovered' = [ran |-> TRUE, files |-> r.results]
        /\ warnings' = r.warnings
        /\ UNCHANGED <<disk, loaded, envVars, wt, results, staleCalls>>
        /\ UNCHANGED <<repairOut, repairCalls, saved, rmVars, rnVars, uiVars>>

LoadWalkthrough ==
    \E fsPath \in 1..(Len(disk) + 1) :
        LET r == loadWalkthrough(fsPath)
        IN  /\ loaded' = [ran |-> TRUE, fsPath |-> fsPath, isNull |-> r.isNull,
                           walkthrough |-> r.walkthrough]
            /\ warnings' = r.warnings
            /\ UNCHANGED <<disk, discovered, envVars, wt, results, staleCalls>>
            /\ UNCHANGED <<repairOut, repairCalls, saved, rmVars, rnVars, uiVars>>

(***************************************************************************)
(* engine.ts: PlaybackEngine, with the extension's onChange listener       *)
(***************************************************************************)
\* this.walkthrough === null
NoWalkthrough == [null |-> TRUE]

\* no timer handle
NoTimer == 0

\* speeds are kept doubled, so that 0.5 is a whole number
SPEED_OPTIONS == <<1, 2, 4, 6>>

\* a PlaybackEngine as constructed (lines 19-24)
NewEngine ==
    [walkthrough |-> NoWalkthrough, currentIndex |-> 0, state |-> "idle",
     autoAdvanceTimer |-> NoTimer, speed |-> 2]

NoNavigation == [none |-> TRUE]

\* currentStaleResults === undefined
NoStaleResults == <<[undefined |-> TRUE]>>

\* The engine operators work on a machine m = [engine, timers, navigated,
\* stale]: the engine object, the pending timers, the last navigation and
\* the currentStaleResults that the onChange listener reads.
Machine(e, ts, nav, stale) == [engine |-> e, timers |-> ts, navigated |-> nav, stale |-> stale]

getStatus(e) ==
    [state |-> e.state,
     currentIndex |-> e.currentIndex,
     totalSteps |-> IF e.walkthrough = NoWalkthrough THEN 0 ELSE Len(e.walkthrough.steps),
     hasStep |-> /\ e.walkthrough # NoWalkthrough
                 /\ e.currentIndex + 1 \in 1..Len(e.walkthrough.steps),
     walkthrough |-> e.walkthrough,
     speed |-> e.speed]

\* currentStaleResults?.find((r) => r.stepIndex === status.currentIndex):
\* the matching verdicts, first one first
staleResultFor(stale, currentIndex) ==
    IF stale = NoStaleResults THEN <<>>
    ELSE SelectSeq(stale, LAMBDA r : r.stepIndex = currentIndex)

\* the step the onChange listener gives to navigateToStep
\* (extension lines 829-846); the last navigation when it gives none
onChange(status, stale, nav) ==
    IF ~(status.hasStep /\ status.state # "idle") THEN nav
    ELSE LET currentStep == status.walkthrough.steps[status.currentIndex + 1]
             found == staleResultFor(stale, status.currentIndex)
         IN  IF /\ found # <<>>
                /\ found[1].status \in {"git-resolved", "drifted"}
                /\ found[1].resolvedLines # <<>>
             THEN [currentStep EXCEPT !.lines = found[1].resolvedLines]
             ELSE currentStep

emit(m) == [m EXCEPT !.navigated = onChange(getStatus(m.engine), m.stale, m.navigated)]

clearAutoAdvance(m) ==
    IF m.engine.autoAdvanceTimer # NoTimer
    THEN [m EXCEPT !.timers = @ \ {m.engine.autoAdvanceTimer},
                   !.engine.autoAdvanceTimer = NoTimer]
    ELSE m

\* the handle setTimeout returns: one that no live timer and no kept handle has
freshTimer(m) ==
    CHOOSE t \in 1..(Cardinality(m.timers) + 2) :
        t \notin m.timers /\ t # m.engine.autoAdvanceTimer

scheduleAutoAdvance(m) ==
    Only({IF c.engine.state # "playing" \/ c.engine.walkthrough = NoWalkthrough
          THEN c
          ELSE [c EXCEPT !.timers = @ \cup {freshTimer(c)},
                         !.engine.autoAdvanceTimer = freshTimer(c)] :
             c \in {clearAutoAdvance(m)}})

stop(m) ==
    emit([clearAutoAdvance(m) EXCEPT !.engine.walkthrough = NoWalkthrough,
                                     !.engine.currentIndex = 0,
                                     !.engine.state = "idle",
                                     !.engine.speed = 2])

load(m, walkthrough) ==
    emit([stop(m) EXCEPT !.engine.walkthrough = walkthrough,
                         !.engine.currentIndex = 0,
                         !.engine.state = "paused"])

play(m) ==
    IF m.engine.walkthrough = NoWalkthrough \/ Len(m.engine.walkthrough.steps) = 0
    THEN m
    ELSE scheduleAutoAdvance(emit([m EXCEPT !.engine.state = "playing"]))

pause(m) == emit(clearAutoAdvance([m EXCEPT !.engine.state = "paused"]))

togglePlayback(m) ==
    IF m.engine.state = "playing" THEN pause(m)
    ELSE IF m.engine.state = "paused" THEN play(m)
    ELSE m

ifPlayingSchedule(m) == IF m.engine.state = "playing" THEN scheduleAutoAdvance(m) ELSE m

next_wraps(m) ==
    IF m.engine.walkthrough = NoWalkthrough THEN m
    ELSE IF m.engine.currentIndex >= Len(m.engine.walkthrough.steps) - 1
    THEN ifPlayingSchedule(emit([m EXCEPT !.engine.currentIndex = 0]))
    ELSE ifPlayingSchedule(emit([m EXCEPT !.engine.currentIndex = @ + 1]))

next(m) ==
    IF m.engine.walkthrough = NoWalkthrough THEN m
    ELSE IF m.engine.currentIndex >= Len(m.engine.walkthrough.steps) - 1
    THEN pause(m)
    ELSE ifPlayingSchedule(emit([m EXCEPT !.engine.currentIndex = @ + 1]))

prev(m) ==
    IF m.engine.walkthrough = NoWalkthrough \/ m.engine.currentIndex <= 0 THEN m
    ELSE ifPlayingSchedule(emit([m EXCEPT !.engine.currentIndex = @ - 1]))

goTo(m, index) ==
    IF m.engine.walkthrough = NoWalkthrough THEN m
    ELSE IF index < 0 \/ index >= Len(m.engine.walkthrough.steps) THEN m
    ELSE ifPlayingSchedule(emit([m EXCEPT !.engine.currentIndex = index]))

setSpeed(m, speed) == ifPlayingSchedule(emit([m EXCEPT !.engine.speed = speed]))

\* SPEED_OPTIONS.indexOf(speed), 0-based
speedIndex(speed) == (CHOOSE i \in 1..Len(SPEED_OPTIONS) : SPEED_OPTIONS[i] = speed) - 1

cycleSpeed(m) ==
    setSpeed(m, SPEED_OPTIONS[((speedIndex(m.engine.speed) + 1) % Len(SPEED_OPTIONS)) + 1])

\* the machine of the current state
Now == Machine(engine, timers, navigated, currentStaleResults)

\* the engine, its timers and the last navigation become those of m
Becomes(m) ==
    /\ engine' = m.engine
    /\ timers' = m.timers
    /\ navigated' = m.navigated

\* the user issues commands until the engine is left to play on its own
UserActive == autoplayFrom = -1

EngineFrame == UNCHANGED <<autoplayFrom, coreVars, extVars, recVars, toolVars>>

Load(walkthrough) ==
    /\ UserActive
    /\ \E m \in {load(Now, walkthrough)} : Becomes(m)
    /\ EngineFrame

Play ==
    /\ UserActive
    /\ \E m \in {play(Now)} : Becomes(m)
    /\ EngineFrame

Pause ==
    /\ UserActive
    /\ \E m \in {pause(Now)} : Becomes(m)
    /\ EngineFrame

TogglePlayback ==
    /\ UserActive
    /\ \E m \in {togglePlayback(Now)} : Becomes(m)
    /\ EngineFrame

NextStep ==
    /\ UserActive
    /\ \E m \in {next(Now)} : Becomes(m)
    /\ EngineFrame

PrevStep ==
    /\ UserActive
    /\ \E m \in {prev(Now)} : Becomes(m)
    /\ EngineFrame

GoTo(index) ==
    /\ UserActive
    /\ \E m \in {goTo(Now, index)} : Becomes(m)
    /\ EngineFrame

SetSpeed(speed) ==
    /\ UserActive
    /\ \E m \in {setSpeed(Now, speed)} : Becomes(m)
    /\ EngineFrame

CycleSpeed ==
    /\ UserActive
    /\ \E m \in {cycleSpeed(Now)} : Becomes(m)
    /\ EngineFrame

Stop ==
    /\ UserActive
    /\ \E m \in {stop(Now)} : Becomes(m)
    /\ EngineFrame

\* the callback of a pending timer runs (lines 151-153)
TimerFires ==
    \E t \in timers :
        /\ \E m \in {next([Now EXCEPT !.timers = @ \ {t}])} : Becomes(m)
        /\ EngineFrame

\* the user's last command has been issued while the engine is playing
HandsOff ==
    /\ UserActive
    /\ engine.state = "playing"
    /\ autoplayFrom' = engine.currentIndex
    /\ UNCHANGED <<engine, timers, navigated, coreVars, extVars, recVars, toolVars>>

(***************************************************************************)
(* executor.ts: resolveSafePath and the tools that read the workspace      *)
(***************************************************************************)
\* A file name is the sequence of its characters, an absolute path the
\* sequence of its names, a path argument [absolute, segs]: whether it
\* starts with "/" and the pieces between its "/".
DotDot == <<".", ".">>
Dot == <<".">>

RECURSIVE normalizeSegments(_, _)
\* path.resolve drops "" and ".", lets ".." remove the name before it, and
\* stays at "/" when there is none
normalizeSegments(segs, acc) ==
    IF segs = <<>> THEN acc
    ELSE IF Head(segs) = Dot \/ Head(segs) = <<>>
    THEN normalizeSegments(Tail(segs), acc)
    ELSE IF Head(segs) = DotDot
    THEN normalizeSegments(Tail(segs),
                           IF acc = <<>> THEN acc ELSE SubSeq(acc, 1, Len(acc) - 1))
    ELSE normalizeSegments(Tail(segs), Append(acc, Head(segs)))

\* path.resolve(root, relativePath): the names of the resulting absolute path
pathResolve(root, relativePath) ==
    normalizeSegments(IF relativePath.absolute
                      THEN relativePath.segs
                      ELSE root \o relativePath.segs, <<>>)

\* the string of an absolute path: "/" before each name, "/" alone for the top
pathString(segs) ==
    IF segs = <<>> THEN <<"/">>
    ELSE Flatten([i \in 1..Len(segs) |-> <<"/">> \o segs[i]])

\* String.prototype.startsWith
startsWith(str, prefix) ==
    Len(prefix) <= Len(str) /\ SubSeq(str, 1, Len(prefix)) = prefix

\* [threw, error, resolved]
resolveSafePath(relativePath) ==
    IF ~workspace
    THEN [threw |-> TRUE, error |-> "No workspace open", resolved |-> <<>>]
    ELSE LET resolved == pathResolve(toolRoot, relativePath)
         IN  IF ~startsWith(pathString(resolved), pathString(toolRoot))
             THEN [threw |-> TRUE, error |-> "Access denied", resolved |-> <<>>]
             ELSE [threw |-> FALSE, error |-> "", resolved |-> resolved]

NotCalled == [called |-> FALSE, tool |-> "", error |-> "", opened |-> FALSE, path |-> <<>>]

\* what a tool does with its path argument: it rejects with the error of
\* resolveSafePath, or gives the resolved path to the file system
toolCall(tool, relativePath) ==
    LET safe == resolveSafePath(relativePath)
    IN  [called |-> TRUE, tool |-> tool, error |-> safe.error,
         opened |-> ~safe.threw, path |-> safe.resolved]

ToolFrame == UNCHANGED <<toolRoot, toolPath, coreVars, engVars, extVars, recVars>>

\* listFiles (lines 26-59): readDirectory of the resolved path
ListFiles ==
    /\ ~toolOut.called
    /\ toolOut' = toolCall("list_files", toolPath)
    /\ ToolFrame

\* readFile (lines 61-99): openTextDocument of the resolved path
ReadFile ==
    /\ ~toolOut.called
    /\ toolOut' = toolCall("read_file", toolPath)
    /\ ToolFrame

\* getSymbols (lines 144-165): openTextDocument of the resolved path
GetSymbols ==
    /\ ~toolOut.called
    /\ toolOut' = toolCall("get_symbols", toolPath)
    /\ ToolFrame

(***************************************************************************)
(* recorder.ts: Recorder                                                   *)
(***************************************************************************)
\* A text the user types is a number: 0 is the empty text, Dismissed the
\* undefined that showInputBox gives when the prompt is dismissed.
Dismissed == -1

\* a Recorder as constructed (lines 16-19)
NewRecorder == [recording |-> FALSE, steps |-> <<>>, title |-> 0, description |-> 0]

RecordedStep(file, lines, symbol, contentHash, subtitle) ==
    [file |-> file, lines |-> lines, symbol |-> symbol, contentHash |-> contentHash,
     subtitle |-> subtitle]

\* A captureStep call: pc is where it stands ("symbol": suspended on
\* findNearestSymbol, "subtitle": suspended on the prompt, "done"), session
\* the recording session it was made in, result what it returned, pushed
\* whether it appended its step and, if so, in which state of the recorder.
CaptureCall(pc, step, sess, result) ==
    [pc |-> pc, step |-> step, session |-> sess, result |-> result,
     pushed |-> FALSE, pushedWhile |-> [recording |-> FALSE, session |-> 0]]

NoStep == RecordedStep("", <<0, 0>>, "", NoHash, 0)

\* captureStep up to its first await (lines 58-87); selection is the pair of
\* the 0-based lines of the selection's start and end
captureStepEnters(editor, selection) ==
    LET doc == files["a"]
        startLine == selection[1] + 1
        endLine == Max(startLine, selection[2] + 1)
        contentHash == Hash(getText(doc.lines, selection[1], selection[2]))
    IN  IF ~recorder.recording \/ ~editor \/ ~workspace
        THEN CaptureCall("done", NoStep, session, FALSE)
        ELSE CaptureCall("symbol",
                         RecordedStep("a", <<startLine, endLine>>, "", contentHash, 0),
                         session, FALSE)

CaptureFrame == UNCHANGED <<coreVars, engVars, extVars, toolVars>>

\* the user runs the recordStep command
CaptureStep(editor, selection) ==
    /\ Len(captures) < MaxCaptures
    /\ captures' = Append(captures, captureStepEnters(editor, selection))
    /\ UNCHANGED <<recorder, saves, starts, written, session>>
    /\ CaptureFrame

\* findNearestSymbol resolves (line 87): a name, or "" when there is none
SymbolFound(n, symbol) ==
    /\ captures[n].pc = "symbol"
    /\ captures' = [captures EXCEPT ![n].pc = "subtitle", ![n].step.symbol = symbol]
    /\ UNCHANGED <<recorder, saves, starts, written, session>>
    /\ CaptureFrame

\* this.steps.push (lines 98-104)
pushStep(rec, step) == [rec EXCEPT !.steps = Append(@, step)]

\* the subtitle prompt resolves (lines 89-108)
SubtitleEntered(n, subtitle) ==
    /\ captures[n].pc = "subtitle"
    /\ IF subtitle = Dismissed
       THEN /\ captures' = [captures EXCEPT ![n].pc = "done"]
            /\ UNCHANGED recorder
       ELSE \E step \in {[captures[n].step EXCEPT !.subtitle = subtitle]} :
                /\ recorder' = pushStep(recorder, step)
                /\ captures' = [captures EXCEPT
                       ![n].pc = "done", ![n].step = step, ![n].result = TRUE,
                       ![n].pushed = recorder'.steps # recorder.steps,
                       ![n].pushedWhile = [recording |-> recorder.recording,
                                           session |-> session]]
    /\ UNCHANGED <<saves, starts, written, session>>
    /\ CaptureFrame

\* what a stop call left behind: the session it ended and the file it wrote
StopRecord(sess, wrote, walkthrough) ==
    [session |-> sess, wrote |-> wrote, walkthrough |-> walkthrough]

NothingWritten == [title |-> 0, description |-> 0, commitSha |-> "", steps |-> <<>>]

\* stop up to the first await of save (lines 111-152)
StopRecording ==
    /\ IF ~recorder.recording
       THEN UNCHANGED <<recorder, saves, written>>
       ELSE /\ recorder' = [recorder EXCEPT !.recording = FALSE]
            /\ IF recorder.steps = <<>> \/ ~workspace
               THEN /\ written' = Append(written, StopRecord(session, FALSE, NothingWritten))
                    /\ UNCHANGED saves
               ELSE /\ saves' = saves \cup {[session |-> session, pc |-> "createDirectory"]}
                    /\ UNCHANGED written
    /\ UNCHANGED <<captures, starts, session>>
    /\ CaptureFrame

\* createDirectory resolves or rejects; save goes on to getHeadSha (lines 149-162)
DirectoryCreated(sv) ==
    /\ sv \in saves
    /\ sv.pc = "createDirectory"
    /\ saves' = (saves \ {sv}) \cup {[sv EXCEPT !.pc = "getHeadSha"]}
    /\ UNCHANGED <<recorder, captures, starts, written, session>>
    /\ CaptureFrame

\* the walkthrough that save builds from the recorder (lines 164-176)
savedWalkthrough(rec, commitSha) ==
    [title |-> rec.title, description |-> rec.description, commitSha |-> commitSha,
     steps |-> [k \in 1..Len(rec.steps) |->
                   [file |-> rec.steps[k].file, lines |-> rec.steps[k].lines,
                    symbol |-> rec.steps[k].symbol, contentHash |-> rec.steps[k].contentHash,
                    subtitle |-> rec.steps[k].subtitle, duration |-> 8]]]

\* getHeadSha resolves; save builds the walkthrough and writes it (lines 162-182)
FileWritten(sv) ==
    /\ sv \in saves
    /\ sv.pc = "getHeadSha"
    /\ saves' = saves \ {sv}
    /\ written' = Append(written,
                          StopRecord(sv.session, TRUE, savedWalkthrough(recorder, getHeadSha)))
    /\ UNCHANGED <<recorder, captures, starts, session>>
    /\ CaptureFrame

\* cancel (lines 127-131)
CancelRecording ==
    /\ recorder' = [recorder EXCEPT !.recording = FALSE, !.steps = <<>>]
    /\ UNCHANGED <<captures, saves, starts, written, session>>
    /\ CaptureFrame

\* the user runs the recordStart command: start waits for the title (line 37)
StartRecording ==
    /\ session + Len(starts) < MaxSessions
    /\ starts' = Append(starts, [pc |-> "title", title |-> 0])
    /\ UNCHANGED <<recorder, captures, saves, written, session>>
    /\ CaptureFrame

Without(q, k) == [j \in 1..(Len(q) - 1) |-> IF j < k THEN q[j] ELSE q[j + 1]]

\* the title prompt resolves (lines 37-48): nothing or "" ends the call
TitleEntered(n, title) ==
    /\ n \in 1..Len(starts)
    /\ starts[n].pc = "title"
    /\ starts' = IF title = Dismissed \/ title = 0
                  THEN Without(starts, n)
                  ELSE [starts EXCEPT ![n].pc = "description", ![n].title = title]
    /\ UNCHANGED <<recorder, captures, saves, written, session>>
    /\ CaptureFrame

\* the description prompt resolves and start takes effect (lines 45-55)
DescriptionEntered(n, description) ==
    /\ n \in 1..Len(starts)
    /\ starts[n].pc = "description"
    /\ starts' = Without(starts, n)
    /\ recorder' = [recording |-> TRUE, steps |-> <<>>, title |-> starts[n].title,
                     description |-> IF description = Dismissed THEN 0 ELSE description]
    /\ session' = session + 1
    /\ UNCHANGED <<captures, saves, written>>
    /\ CaptureFrame

(***************************************************************************)
(* extension: beginPlayback, repairCurrentWalkthrough(AndReload),          *)
(* stopWalkthrough                                                         *)
(***************************************************************************)
\* A WalkthroughFile is its place in tourFiles; currentWalkthroughFile is
\* NoTourFile when undefined.
NoTourFile == 0

NoLoad == [file |-> NoTourFile, checked |-> <<>>, consent |-> FALSE]

\* currentStaleResults.filter(r => r.status !== "fresh" && r.status !==
\* "git-resolved").length (lines 988-990)
needsRepair(staleResults) ==
    Len(SelectSeq(staleResults, LAMBDA r : r.status # "fresh" /\ r.status # "git-resolved"))

\* A call of beginPlayback or of repairCurrentWalkthroughAndReload that is
\* suspended: pc names the await, walkthrough is the one the call holds,
\* checked the verdicts it computed, thenGoTo the step of playFileAtStep
\* (-1 when there is none).
Playback(pc, file, walkthrough, checked, thenGoTo) ==
    [pc |-> pc, file |-> file, walkthrough |-> walkthrough, checked |-> checked,
     thenGoTo |-> thenGoTo]

\* beginPlayback(file).then(() => engine.goTo(stepIndex)) (lines 927-929)
thenGoTo(pb, m) == IF pb.thenGoTo >= 0 THEN goTo(m, pb.thenGoTo) ELSE m

ExtensionFrame == UNCHANGED <<autoplayFrom, coreVars, recVars, toolVars>>

\* panel.show(); engine.load(walkthrough) at the end of a call: the listener
\* reads the currentStaleResults of that moment
LoadAndEnd(k, walkthrough, staleResults, consent) ==
    /\ \E m \in {thenGoTo(playbacks[k],
                            load(Machine(engine, timers, navigated, staleResults),
                                 walkthrough))} : Becomes(m)
    /\ lastLoad' = [file |-> playbacks[k].file, checked |-> playbacks[k].checked,
                    consent |-> consent]
    /\ playbacks' = Without(playbacks, k)

\* the call ends without loading; the promise resolves
End(k) ==
    /\ \E m \in {thenGoTo(playbacks[k], Now)} : Becomes(m)
    /\ playbacks' = Without(playbacks, k)
    /\ UNCHANGED lastLoad

\* the promise rejects
Reject(k) ==
    /\ playbacks' = Without(playbacks, k)
    /\ UNCHANGED <<engVars, lastLoad>>

\* playFile, playFileAtStep and open (which discovers the files and lets the
\* user pick one first): beginPlayback up to its await (lines 980-986)
PlayFile(file, stepIndex) ==
    /\ Len(playbacks) < MaxCalls
    /\ file \in 1..Len(tourFiles)
    /\ currentWalkthroughFile' = file
    /\ playbacks' = Append(playbacks,
                            Playback("checkStaleness", file, tourFiles[file], <<>>, stepIndex))
    /\ UNCHANGED <<currentStaleResults, tourFiles, lastLoad, shown, engVars>>
    /\ ExtensionFrame

\* checkStaleness resolves in beginPlayback (lines 983-1018)
StalenessChecked(k) ==
    /\ k \in 1..Len(playbacks)
    /\ playbacks[k].pc = "checkStaleness"
    /\ \E r \in {checkStaleness(playbacks[k].walkthrough.steps,
                                 playbacks[k].walkthrough.commitSha)} :
           IF r.threw
           THEN /\ Reject(k)
                /\ UNCHANGED <<currentStaleResults, shown>>
           ELSE /\ currentStaleResults' = r.out
                /\ IF needsRepair(r.out) > 0
                   THEN /\ shown' = shown \cup
                               {[file |-> playbacks[k].file,
                                 walkthrough |-> playbacks[k].walkthrough,
                                 autoRepair |-> playbacks[k].walkthrough.commitSha # ""]}
                        /\ playbacks' = [playbacks EXCEPT ![k].pc = "warning",
                                                           ![k].checked = r.out]
                        /\ UNCHANGED <<engVars, lastLoad>>
                   ELSE /\ \E m \in {thenGoTo(playbacks[k],
                                                load(Machine(engine, timers, navigated, r.out),
                                                     playbacks[k].walkthrough))} : Becomes(m)
                        /\ lastLoad' = [file |-> playbacks[k].file, checked |-> r.out,
                                        consent |-> FALSE]
                        /\ playbacks' = Without(playbacks, k)
                        /\ UNCHANGED shown
    /\ UNCHANGED <<currentWalkthroughFile, tourFiles>>
    /\ ExtensionFrame

\* the user answers the warning, "" when they dismiss it (lines 996-1018)
WarningAnswered(k, choice) ==
    /\ k \in 1..Len(playbacks)
    /\ playbacks[k].pc = "warning"
    /\ choice = "Auto-Repair" => playbacks[k].walkthrough.commitSha # ""
    /\ IF choice = "Cancel" \/ choice = ""
       THEN End(k)
       ELSE IF choice = "Auto-Repair"
       THEN /\ playbacks' = [playbacks EXCEPT
                                 ![k].pc = "repairWalkthrough",
                                 ![k].walkthrough = tourFiles[playbacks[k].file]]
            /\ UNCHANGED <<engVars, lastLoad>>
       ELSE LoadAndEnd(k, playbacks[k].walkthrough, currentStaleResults, TRUE)
    /\ UNCHANGED <<currentStaleResults, currentWalkthroughFile, tourFiles, shown>>
    /\ ExtensionFrame

\* the repair command: repairCurrentWalkthrough (lines 1153-1160)
Repair ==
    /\ Len(playbacks) < MaxCalls
    /\ playbacks' = IF currentWalkthroughFile = NoTourFile
                     THEN playbacks
                     ELSE Append(playbacks,
                                 Playback("repairWalkthrough", currentWalkthroughFile,
                                          tourFiles[currentWalkthroughFile], <<>>, -1))
    /\ UNCHANGED <<currentStaleResults, currentWalkthroughFile, tourFiles, lastLoad, shown,
                   engVars>>
    /\ ExtensionFrame

\* repairWalkthrough and saveRepairedWalkthrough resolve in
\* repairCurrentWalkthroughAndReload (lines 1165-1180)
Repaired(k) ==
    /\ k \in 1..Len(playbacks)
    /\ playbacks[k].pc = "repairWalkthrough"
    /\ \E r \in {repairWalkthrough(playbacks[k].walkthrough).result} :
           IF r.threw
           THEN /\ Reject(k)
                /\ UNCHANGED <<currentWalkthroughFile, tourFiles>>
           ELSE IF ~(r.stepsFixed > 0 \/ r.repaired)
           THEN /\ End(k)
                /\ UNCHANGED <<currentWalkthroughFile, tourFiles>>
           ELSE /\ tourFiles' = [tourFiles EXCEPT ![playbacks[k].file] = r.walkthrough]
                /\ currentWalkthroughFile' = playbacks[k].file
                /\ playbacks' = [playbacks EXCEPT ![k].pc = "recheck",
                                                   ![k].walkthrough = r.walkthrough]
                /\ UNCHANGED <<engVars, lastLoad>>
    /\ UNCHANGED <<currentStaleResults, shown>>
    /\ ExtensionFrame

\* checkStaleness resolves in repairCurrentWalkthroughAndReload (lines 1181-1187)
Rechecked(k) ==
    /\ k \in 1..Len(playbacks)
    /\ playbacks[k].pc = "recheck"
    /\ \E r \in {checkStaleness(playbacks[k].walkthrough.steps,
                                 playbacks[k].walkthrough.commitSha)} :
           IF r.threw
           THEN /\ Reject(k)
                /\ UNCHANGED currentStaleResults
           ELSE /\ currentStaleResults' = r.out
                /\ \E m \in {thenGoTo(playbacks[k],
                                        load(Machine(engine, timers, navigated, r.out),
                                             playbacks[k].walkthrough))} : Becomes(m)
                /\ lastLoad' = [file |-> playbacks[k].file, checked |-> r.out,
                                consent |-> FALSE]
                /\ playbacks' = Without(playbacks, k)
    /\ UNCHANGED <<currentWalkthroughFile, tourFiles, shown>>
    /\ ExtensionFrame

\* stopWalkthrough (lines 1278-1286)
StopWalkthrough ==
    /\ \E m \in {stop(Now)} : Becomes(m)
    /\ currentStaleResults' = NoStaleResults
    /\ currentWalkthroughFile' = NoTourFile
    /\ UNCHANGED <<tourFiles, playbacks, lastLoad, shown, autoplayFrom>>
    /\ UNCHANGED <<coreVars, recVars, toolVars>>

(***************************************************************************)
(* Inputs                                                                  *)
(***************************************************************************)
Step(file, lines, symbol, contentHash) ==
    [file |-> file, lines |-> lines, symbol |-> symbol, contentHash |-> contentHash,
     subtitle |-> "note", duration |-> 0]

Walkthrough(commitSha, steps) ==
    [title |-> "tour", description |-> "about", commitSha |-> commitSha, steps |-> steps]

Docs == {Doc(ls) : ls \in (SeqsUpTo(LineVals, MaxLen) \ {<<>>})}

\* fingerprints recorded over one value: a range of the current file matches
\* one of them exactly when it has the right length and holds only that value
StoredHashes == {Hash([j \in 1..n |-> 1]) : n \in 1..2}

StepLines == {<<s, e>> : s \in 0..MaxLine, e \in 0..MaxLine}

Sym(name, line, children) == [name |-> name, line |-> line, children |-> children]

SymbolAnswers ==
    {[kind |-> "error", syms |-> <<>>],
     [kind |-> "none", syms |-> <<>>],
     [kind |-> "list", syms |-> <<Sym("g", 0, <<>>)>>],
     [kind |-> "list", syms |-> <<Sym("g", 0, <<Sym("f", 1, <<>>)>>), Sym("f", 2, <<>>)>>]}

\* the one-hunk changes of a file that had MaxLen lines at commitSha: lines
\* inserted, lines deleted, one line rewritten
OneHunkEdits ==
    {e \in {Edit(pos, 0, c) : pos \in 0..MaxLen, c \in 1..MaxCount}
           \cup {Edit(pos, c, 0) : pos \in 1..MaxLen, c \in 1..MaxCount}
           \cup {Edit(pos, 1, 1) : pos \in 1..MaxLen} : ValidEdit(MaxLen, e)}

\* what git diff -U0 prints for them, and for an unchanged file
DiffOutputs == {<<>>} \cup {GitDiffU0(<<e>>) : e \in OneHunkEdits}

\* (commitSha, HEAD): absent, unobtainable, equal, different
Revisions == {<<"", "r2">>, <<"r1", "">>, <<"r1", "r1">>, <<"r1", "r2">>}

RemapIdle ==
    /\ rmOldLen = 0
    /\ rmScript = <<>>
    /\ rmRange = <<1, 1>>
    /\ rmOut = <<0, 0>>

NothingRun ==
    /\ results = NotRun
    /\ staleCalls = <<>>
    /\ repairOut = NoRepair
    /\ repairCalls = <<>>
    /\ saved = NoRepair

RenamesIdle ==
    /\ rnPath = ""
    /\ rnOut = NotAsked

LoaderIdle ==
    /\ disk = <<>>
    /\ discovered = NotDiscovered
    /\ loaded = NotLoaded
    /\ warnings = <<>>

EngineIdle ==
    /\ engine = NewEngine
    /\ timers = {}
    /\ navigated = NoNavigation
    /\ autoplayFrom = -1

ExtensionIdle ==
    /\ currentStaleResults = NoStaleResults
    /\ currentWalkthroughFile = NoTourFile
    /\ tourFiles = <<>>
    /\ playbacks = <<>>
    /\ lastLoad = NoLoad
    /\ shown = {}

RecorderIdle ==
    /\ recorder = NewRecorder
    /\ captures = <<>>
    /\ saves = {}
    /\ starts = <<>>
    /\ written = <<>>
    /\ session = 0

ToolsIdle ==
    /\ toolRoot = <<>>
    /\ toolPath = <<>>
    /\ toolOut = NotCalled

UiIdle == EngineIdle /\ ExtensionIdle /\ RecorderIdle /\ ToolsIdle

\* One step on file "a" in every combination of stored range, fingerprint and
\* symbol, against every current state of that file and of git.  What nobody
\* can ask for has one value: no diff without two different revisions, no
\* symbols for a step without a symbol, nothing without a workspace.
Init ==
    /\ workspace \in BOOLEAN
    /\ wt \in {Walkthrough(c, <<Step("a", ls, sy, h)>>) :
                  c \in {"", "r1"}, ls \in StepLines, sy \in {"", "f"},
                  h \in {NoHash} \cup StoredHashes}
    /\ headSha \in (IF workspace
                    THEN {r[2] : r \in {q \in Revisions : q[1] = wt.commitSha}}
                    ELSE {""})
    /\ files \in (IF workspace
                  THEN {[p \in Paths |-> IF p = "a" THEN d ELSE NoFile] : d \in Docs \cup {NoFile}}
                  ELSE {[p \in Paths |-> NoFile]})
    /\ diffOut \in (IF workspace /\ wt.commitSha = "r1" /\ headSha = "r2"
                    THEN {[p \in Paths |-> IF p = "a" THEN d ELSE <<>>] : d \in DiffOutputs}
                    ELSE {[p \in Paths |-> <<>>]})
    /\ symbols \in (IF workspace /\ wt.steps[1].symbol # ""
                    THEN {[p \in Paths |-> a] : a \in SymbolAnswers}
                    ELSE {[p \in Paths |-> [kind |-> "error", syms |-> <<>>]]})
    /\ existsOld = [p \in Paths |-> workspace /\ p = "a"]
    /\ renames = [p \in Paths |-> GitOutput(<<>>)]
    /\ NothingRun
    /\ RemapIdle
    /\ RenamesIdle
    /\ LoaderIdle
    /\ UiIdle

Next == CheckStaleness \/ RepairWalkthrough

Spec == Init /\ [][Next]_vars

\* Step lists on both files: the steps and the states of a file are few, so
\* that lists of every length up to MaxSteps can be enumerated.
ListSteps ==
    {Step(p, <<1, 1>>, sy, h) : p \in Paths, sy \in {"", "f"}, h \in {NoHash, Hash(<<1>>)}}
    \cup {Step(p, <<1, 0>>, "", Hash(<<1>>)) : p \in Paths}

ListDocs == {NoFile, Doc(<<1>>), Doc(<<2, 1>>)}

ListDiffs == {<<>>, GitDiffU0(<<Edit(0, 0, 1)>>)}

ListSymbolAnswers == {a \in SymbolAnswers : a.kind = "error" \/ Len(a.syms) = 2}

InitList ==
    /\ workspace \in BOOLEAN
    /\ headSha \in (IF workspace THEN {"", "r2"} ELSE {""})
    /\ wt \in {Walkthrough("r1", st) : st \in (SeqsUpTo(ListSteps, MaxSteps) \ {<<>>})}
    /\ files \in (IF workspace THEN [Paths -> ListDocs] ELSE {[p \in Paths |-> NoFile]})
    /\ diffOut \in (IF workspace /\ headSha = "r2"
                    THEN [Paths -> ListDiffs]
                    ELSE {[p \in Paths |-> <<>>]})
    /\ symbols \in (IF workspace
                    THEN {[p \in Paths |-> a] : a \in ListSymbolAnswers}
                    ELSE {[p \in Paths |-> [kind |-> "error", syms |-> <<>>]]})
    /\ existsOld = [p \in Paths |-> workspace]
    /\ renames = [p \in Paths |-> GitOutput(<<>>)]
    /\ NothingRun
    /\ RemapIdle
    /\ RenamesIdle
    /\ LoaderIdle
    /\ UiIdle

SpecList == InitList /\ [][Next]_vars

\* The remapper alone: every range of every old file against every diff.
InitRemap ==
    /\ rmOldLen \in 1..MaxOld
    /\ rmScript \in Scripts(rmOldLen, MaxHunks)
    /\ rmRange \in {<<s, e>> \in (1..rmOldLen) \X (1..rmOldLen) : s <= e}
    /\ rmOut = <<>>
    /\ workspace = FALSE
    /\ headSha = ""
    /\ wt = Walkthrough("", <<>>)
    /\ files = [p \in Paths |-> NoFile]
    /\ diffOut = [p \in Paths |-> <<>>]
    /\ symbols = [p \in Paths |-> [kind |-> "error", syms |-> <<>>]]
    /\ existsOld = [p \in Paths |-> FALSE]
    /\ renames = [p \in Paths |-> GitOutput(<<>>)]
    /\ NothingRun
    /\ RenamesIdle
    /\ LoaderIdle
    /\ UiIdle

NextRemap == RemapLineRange

SpecRemap == InitRemap /\ [][NextRemap]_vars

\* Repair: step lists on both files against the current files, the diffs and
\* what git says of the paths at commitSha.
RepairSteps ==
    {Step(p, <<1, 1>>, "", Hash(<<1>>)) : p \in Paths}
    \cup {Step("a", <<1, 1>>, "", NoHash), Step("a", <<1, 2>>, "f", Hash(<<1>>)),
          Step("a", <<1, 0>>, "", Hash(<<1>>))}

\* nothing was renamed since commitSha; "a" was renamed to "b", which is new
RenameScenarios ==
    {[existsOld |-> [p \in Paths |-> TRUE],
      renames |-> [p \in Paths |-> GitOutput(<<StatusLine("M", p, "")>>)]],
     [existsOld |-> [p \in Paths |-> p = "a"],
      renames |-> [p \in Paths |-> IF p = "a"
                                    THEN GitOutput(<<StatusLine("R", "a", "b")>>)
                                    ELSE GitOutput(<<StatusLine("A", p, "")>>)]]}

InitRepair ==
    /\ workspace \in BOOLEAN
    /\ wt \in {Walkthrough(c, st) : c \in {"", "r1"},
                                     st \in (SeqsUpTo(RepairSteps, MaxSteps) \ {<<>>})}
    /\ headSha \in (IF workspace
                    THEN {r[2] : r \in {q \in Revisions : q[1] = wt.commitSha}}
                    ELSE {""})
    /\ files \in (IF workspace /\ wt.commitSha = "r1" /\ headSha = "r2"
                  THEN [Paths -> ListDocs]
                  ELSE IF workspace THEN {[p \in Paths |-> Doc(<<2, 1>>)]}
                  ELSE {[p \in Paths |-> NoFile]})
    /\ diffOut \in (IF workspace /\ wt.commitSha = "r1" /\ headSha = "r2"
                    THEN [Paths -> ListDiffs]
                    ELSE {[p \in Paths |-> <<>>]})
    /\ symbols = [p \in Paths |-> [kind |-> "error", syms |-> <<>>]]
    /\ \E sc \in (IF workspace /\ wt.commitSha = "r1" /\ headSha = "r2"
                   THEN RenameScenarios
                   ELSE {[existsOld |-> [p \in Paths |-> workspace],
                          renames |-> [p \in Paths |-> GitOutput(<<>>)]]}) :
           /\ existsOld = sc.existsOld
           /\ renames = sc.renames
    /\ NothingRun
    /\ RemapIdle
    /\ RenamesIdle
    /\ LoaderIdle
    /\ UiIdle

NextRepair == CheckStaleness \/ RepairWalkthrough \/ RepairAndReload

SpecRepair == InitRepair /\ [][NextRepair]_vars

\* Nothing of the workspace is looked at.
NoEnvironment ==
    /\ headSha = ""
    /\ wt = Walkthrough("", <<>>)
    /\ files = [p \in Paths |-> NoFile]
    /\ diffOut = [p \in Paths |-> <<>>]
    /\ symbols = [p \in Paths |-> [kind |-> "error", syms |-> <<>>]]
    /\ existsOld = [p \in Paths |-> FALSE]

\* The rename lookup alone: every queried path against every output of git.
StatusLines ==
    {StatusLine("R", "a", "b"), StatusLine("R", "b", "a"), StatusLine("R", "c", "a"),
     StatusLine("M", "a", ""), StatusLine("D", "b", "")}

RenameAnswers == {GitFailure} \cup {GitOutput(ls) : ls \in SeqsUpTo(StatusLines, MaxRecords)}

InitRenames ==
    /\ workspace \in BOOLEAN
    /\ rnPath \in Paths
    /\ renames \in (IF workspace
                    THEN {[p \in Paths |-> IF p = rnPath THEN a ELSE GitOutput(<<>>)] :
                             a \in RenameAnswers}
                    ELSE {[p \in Paths |-> GitFailure]})
    /\ rnOut = NotAsked
    /\ NoEnvironment
    /\ NothingRun
    /\ RemapIdle
    /\ LoaderIdle
    /\ UiIdle

NextRenames == GetFileRenames

SpecRenames == InitRenames /\ [][NextRenames]_vars

\* The loader alone: the documents that break one rule each, and the ones
\* that break none.
GoodStep(lines) ==
    StepData(JString("a"), JList(<<JNumber(lines[1]), JNumber(lines[2])>>), JString("note"))

GoodSteps == {GoodStep(ls) : ls \in {<<1, 1>>, <<1, 2>>, <<1, 0>>, <<0, 1>>, <<2, 1>>}}

BrokenSteps ==
    {NotAStep,
     StepData(JUndefined, JList(<<JNumber(1), JNumber(1)>>), JString("note")),
     StepData(JNumber(1), JList(<<JNumber(1), JNumber(1)>>), JString("note")),
     StepData(JString("a"), JNotAList, JString("note")),
     StepData(JString("a"), JList(<<JNumber(1)>>), JString("note")),
     StepData(JString("a"), JList(<<JNumber(1), JNumber(1), JNumber(1)>>), JString("note")),
     StepData(JString("a"), JList(<<JString("1"), JNumber(1)>>), JString("note")),
     StepData(JString("a"), JList(<<JNumber(1), JUndefined>>), JString("note")),
     StepData(JString("a"), JList(<<JNumber(1), JNumber(1)>>), JUndefined)}

StepLists ==
    {<<g>> : g \in GoodSteps}
    \cup {<<b>> : b \in BrokenSteps}
    \cup {<<GoodStep(<<1, 1>>), b>> : b \in BrokenSteps}
    \cup {<<GoodStep(<<1, 1>>), GoodStep(<<1, 2>>)>>}

DiskFiles ==
    {Unreadable, Unparsable, DiskFile(TRUE, TRUE, NotATour)}
    \cup {DiskFile(TRUE, TRUE, TourData(JString("tour"), JString("about"), JList(st))) :
              st \in StepLists \cup {<<>>}}
    \cup {DiskFile(TRUE, TRUE, TourData(t, d, JList(<<GoodStep(<<1, 1>>)>>))) :
              t \in {JUndefined, JNumber(1)}, d \in {JString("about")}}
    \cup {DiskFile(TRUE, TRUE, TourData(JString("tour"), d, JList(<<GoodStep(<<1, 1>>)>>))) :
              d \in {JUndefined, JNumber(1)}}
    \cup {DiskFile(TRUE, TRUE, TourData(JString("tour"), JString("about"), JNotAList))}

InitLoader ==
    /\ disk \in SeqsUpTo(DiskFiles, MaxFiles)
    /\ discovered = NotDiscovered
    /\ loaded = NotLoaded
    /\ warnings = <<>>
    /\ workspace = TRUE
    /\ renames = [p \in Paths |-> GitOutput(<<>>)]
    /\ NoEnvironment
    /\ NothingRun
    /\ RemapIdle
    /\ RenamesIdle
    /\ UiIdle

NextLoader == DiscoverWalkthroughs \/ LoadWalkthrough

SpecLoader == InitLoader /\ [][NextLoader]_vars

\* The engine on its own: walkthroughs of every length from 1 to MaxTour,
\* every command of the class at any time, and the timers.
EngineTours ==
    {Walkthrough("", [k \in 1..n |-> Step("a", <<k, k>>, "", NoHash)]) : n \in 1..MaxTour}

InitEngine ==
    /\ workspace = FALSE
    /\ headSha = ""
    /\ files = [p \in Paths |-> NoFile]
    /\ diffOut = [p \in Paths |-> <<>>]
    /\ symbols = [p \in Paths |-> [kind |-> "error", syms |-> <<>>]]
    /\ existsOld = [p \in Paths |-> FALSE]
    /\ renames = [p \in Paths |-> GitOutput(<<>>)]
    /\ wt = Walkthrough("", <<>>)
    /\ NothingRun
    /\ RemapIdle
    /\ RenamesIdle
    /\ LoaderIdle
    /\ UiIdle

NextEngine ==
    \/ \E w \in EngineTours : Load(w)
    \/ Play
    \/ Pause
    \/ TogglePlayback
    \/ NextStep
    \/ PrevStep
    \/ \E index \in -1..MaxTour : GoTo(index)
    \/ \E i \in 1..Len(SPEED_OPTIONS) : SetSpeed(SPEED_OPTIONS[i])
    \/ CycleSpeed
    \/ Stop
    \/ TimerFires
    \/ HandsOff

SpecEngine == InitEngine /\ [][NextEngine]_vars

\* setTimeout: a timer that is set and not cleared fires
SpecAutoPlay == InitEngine /\ [][NextEngine]_vars /\ WF_vars(TimerFires)

\* A tool call with a path argument of up to MaxSegments pieces: names, "."
\* and "..", relative or absolute.  One root has a sibling directory whose
\* name begins with the root's name.
FileNames == {<<"w">>, <<"w", "x">>, <<"s">>}

PathArguments ==
    {[absolute |-> ab, segs |-> q] :
        ab \in BOOLEAN, q \in SeqsUpTo(FileNames \cup {Dot, DotDot}, MaxSegments)}

WorkspaceRoots == {<<<<"w">>>>, <<<<"s">>, <<"w">>>>}

InitTools ==
    /\ workspace \in BOOLEAN
    /\ headSha = ""
    /\ files = [p \in Paths |-> NoFile]
    /\ diffOut = [p \in Paths |-> <<>>]
    /\ symbols = [p \in Paths |-> [kind |-> "error", syms |-> <<>>]]
    /\ existsOld = [p \in Paths |-> FALSE]
    /\ renames = [p \in Paths |-> GitOutput(<<>>)]
    /\ wt = Walkthrough("", <<>>)
    /\ NothingRun
    /\ RemapIdle
    /\ RenamesIdle
    /\ LoaderIdle
    /\ EngineIdle
    /\ ExtensionIdle
    /\ RecorderIdle
    /\ toolRoot \in (IF workspace THEN WorkspaceRoots ELSE {<<>>})
    /\ toolPath \in PathArguments
    /\ toolOut = NotCalled

NextTools == ListFiles \/ ReadFile \/ GetSymbols

SpecTools == InitTools /\ [][NextTools]_vars

\* Recording sessions: up to MaxSessions starts and MaxCaptures captureStep
\* calls, the n-th of which gets the subtitle n, each interleaved at its
\* awaits with stop, cancel and start.
InitRecorder ==
    /\ workspace = TRUE
    /\ headSha = "r2"
    /\ files = [p \in Paths |-> IF p = "a" THEN Doc(<<1, 2>>) ELSE NoFile]
    /\ diffOut = [p \in Paths |-> <<>>]
    /\ symbols = [p \in Paths |-> [kind |-> "error", syms |-> <<>>]]
    /\ existsOld = [p \in Paths |-> FALSE]
    /\ renames = [p \in Paths |-> GitOutput(<<>>)]
    /\ wt = Walkthrough("", <<>>)
    /\ NothingRun
    /\ RemapIdle
    /\ RenamesIdle
    /\ LoaderIdle
    /\ UiIdle

NextRecorder ==
    \/ \E editor \in BOOLEAN, selection \in {<<0, 1>>} : CaptureStep(editor, selection)
    \/ \E n \in 1..Len(captures), symbol \in {"", "f"} : SymbolFound(n, symbol)
    \/ \E n \in 1..Len(captures) : \E subtitle \in {Dismissed, n} : SubtitleEntered(n, subtitle)
    \/ StopRecording
    \/ \E sv \in saves : DirectoryCreated(sv)
    \/ \E sv \in saves : FileWritten(sv)
    \/ CancelRecording
    \/ StartRecording
    \/ \E n \in 1..Len(starts), title \in {Dismissed, 0, 1} : TitleEntered(n, title)
    \/ \E n \in 1..Len(starts), description \in {Dismissed, 1} : DescriptionEntered(n, description)

SpecRecorder == InitRecorder /\ [][NextRecorder]_vars

\* The extension with MaxTourFiles walkthrough files in a workspace at "r2":
\* "a" got a line inserted at its top since "r1", "b" is gone.
PlayTours ==
    <<Walkthrough("r1", <<Step("a", <<1, 1>>, "", Hash(<<1>>)), Step("b", <<1, 1>>, "", Hash(<<1>>))>>),
      Walkthrough("r1", <<Step("a", <<1, 1>>, "", Hash(<<1>>))>>),
      Walkthrough("", <<Step("a", <<1, 1>>, "", Hash(<<1>>))>>),
      Walkthrough("r1", <<Step("a", <<2, 2>>, "", Hash(<<1>>))>>)>>

\* the files hold tours that follow each other in PlayTours
Shelf(first) == [k \in 1..MaxTourFiles |-> PlayTours[((first + k - 2) % Len(PlayTours)) + 1]]

InitExtension ==
    /\ workspace = TRUE
    /\ headSha = "r2"
    /\ files = [p \in Paths |-> IF p = "a" THEN Doc(<<2, 1>>) ELSE NoFile]
    /\ diffOut = [p \in Paths |-> IF p = "a" THEN GitDiffU0(<<Edit(0, 0, 1)>>) ELSE <<>>]
    /\ symbols = [p \in Paths |-> [kind |-> "error", syms |-> <<>>]]
    /\ existsOld = [p \in Paths |-> TRUE]
    /\ renames = [p \in Paths |-> GitOutput(<<StatusLine("M", p, "")>>)]
    /\ wt = Walkthrough("", <<>>)
    /\ NothingRun
    /\ RemapIdle
    /\ RenamesIdle
    /\ LoaderIdle
    /\ EngineIdle
    /\ RecorderIdle
    /\ ToolsIdle
    /\ currentStaleResults = NoStaleResults
    /\ currentWalkthroughFile = NoTourFile
    /\ tourFiles \in {Shelf(1), Shelf(3)}
    /\ playbacks = <<>>
    /\ lastLoad = NoLoad
    /\ shown = {}

NextExtension ==
    \/ \E file \in 1..MaxTourFiles, stepIndex \in {-1, 1} : PlayFile(file, stepIndex)
    \/ \E k \in 1..MaxCalls : StalenessChecked(k)
    \/ \E k \in 1..MaxCalls :
           \E choice \in {"Continue Anyway", "Auto-Repair", "Cancel", ""} :
               WarningAnswered(k, choice)
    \/ Repair
    \/ \E k \in 1..MaxCalls : Repaired(k)
    \/ \E k \in 1..MaxCalls : Rechecked(k)
    \/ StopWalkthrough
    \/ NextStep
    \/ PrevStep
    \/ TogglePlayback
    \/ TimerFires

SpecExtension == InitExtension /\ [][NextExtension]_vars

(***************************************************************************)
(* Properties                                                              *)
(***************************************************************************)
StepAt(k) == wt.steps[k]
VerdictAt(k) == results.out[k]
LinesOf(k) == files[StepAt(k).file].lines
Opens(k) == files[StepAt(k).file].exists
CallsFor(k) == {staleCalls[j] : j \in {n \in 1..Len(staleCalls) : staleCalls[n].step = k - 1}}
HeadObtainable == workspace /\ headSha # ""
\* commitSha is set, HEAD is obtainable and the two differ
GitUsable == wt.commitSha # "" /\ HeadObtainable /\ wt.commitSha # headSha
HunksFor(k) == parseHunkHeaders(diffOut[StepAt(k).file])
\* the stored range meets the file and the lines it names there have the
\* stored fingerprint
StoredRangeMatches(k) ==
    LET first == Max(1, StepAt(k).lines[1])
        last == Min(Len(LinesOf(k)), StepAt(k).lines[2])
    IN  /\ first <= last
        /\ Hash(SubSeq(LinesOf(k), first, last)) = StepAt(k).contentHash
\* the file opens, a fingerprint is stored, the stored range can be read and
\* its fingerprint differs from the stored one
StoredRangeMismatches(k) ==
    /\ Opens(k)
    /\ StepAt(k).contentHash # NoHash
    /\ ~checkContentHash(LinesOf(k), StepAt(k)).threw
    /\ ~checkContentHash(LinesOf(k), StepAt(k)).match
\* the remapped range after the caller's two clamping assignments
ClampedRemap(k) ==
    LET new == remapLineRange(StepAt(k).lines[1], StepAt(k).lines[2], HunksFor(k))
        start == Max(1, new[1])
    IN  <<start, Min(Len(LinesOf(k)), Max(start, new[2]))>>
DiffTierDecides(k) == StoredRangeMismatches(k) /\ GitUsable /\ HunksFor(k) # <<>>

\* C1: checkStaleness returns one verdict per input step, in input order:
\* the result is as long as the step list and the verdict at position i
\* (0-based) has stepIndex = i.
C1_OneVerdictPerStepInOrder ==
    results.ran =>
        /\ ~results.threw
        /\ Len(results.out) = Len(wt.steps)
        /\ \A k \in 1..Len(results.out) : VerdictAt(k).stepIndex = k - 1

C1_Witness ==
    /\ results.ran
    /\ Len(wt.steps) >= 2
    /\ \E j, k \in 1..Len(results.out) :
          j < k /\ VerdictAt(j).status = "missing" /\ VerdictAt(k).status = "git-resolved"

OpenFails(k) == ~Opens(k)
\* lineAt is asked for a line before the first one
ReadFails(k) == Opens(k) /\ StepAt(k).contentHash # NoHash /\ StepAt(k).lines[2] < 1
SymbolProviderFails(k) ==
    /\ Call("symbols", StepAt(k).file, k - 1) \in CallsFor(k)
    /\ symbols[StepAt(k).file].kind = "error"
IsMissing(k) == VerdictAt(k).status = "missing" /\ VerdictAt(k).resolvedLines = <<>>
Outcome(v) == [status |-> v.status, resolvedLines |-> v.resolvedLines, detail |-> v.detail]
Outcomes(q) == [j \in 1..Len(q) |-> Outcome(q[j])]
\* the other steps get the verdicts they get when step k is not in the list
OthersUnaffected(k) ==
    Outcomes(Without(results.out, k))
        = Outcomes(checkStaleness(Without(wt.steps, k), wt.commitSha).out)

\* C2 as stated: checkStaleness never throws; a step whose file cannot be
\* opened, whose line index is out of range or whose symbol provider fails
\* is missing with no resolved range, the other steps are unaffected, and
\* with no workspace every step is missing.
C2_AnyFailureIsMissing ==
    results.ran =>
        /\ ~results.threw
        /\ \A k \in 1..Len(wt.steps) :
              (OpenFails(k) \/ ReadFails(k) \/ SymbolProviderFails(k))
                  => (IsMissing(k) /\ OthersUnaffected(k))
        /\ ~workspace => \A k \in 1..Len(wt.steps) : IsMissing(k)

\* C2 amended: checkStaleness never throws; a step whose file cannot be
\* opened or whose line index is out of range is missing with no resolved
\* range; a symbol provider error counts as "symbol not found", so that step
\* is drifted with no resolved range; in each case the other steps are
\* unaffected; with no workspace every step is missing.
C2_FailuresStayLocal ==
    results.ran =>
        /\ ~results.threw
        /\ \A k \in 1..Len(wt.steps) :
              /\ (OpenFails(k) \/ ReadFails(k)) => (IsMissing(k) /\ OthersUnaffected(k))
              /\ SymbolProviderFails(k) =>
                    /\ VerdictAt(k).status = "drifted"
                    /\ VerdictAt(k).resolvedLines = <<>>
                    /\ OthersUnaffected(k)
        /\ ~workspace => \A k \in 1..Len(wt.steps) : IsMissing(k)

C2_Witness ==
    /\ results.ran
    /\ \E i, k \in 1..Len(results.out) :
          /\ i < k
          /\ ReadFails(i)
          /\ IsMissing(i)
          /\ SymbolProviderFails(k)
          /\ VerdictAt(k).status = "drifted"

\* C3: a step whose file opens and whose stored fingerprint equals the
\* fingerprint of the current content at its stored range is fresh, with no
\* resolved range, and no diff is looked up for it, whatever commitSha, HEAD
\* and the hunks are.
C3_FreshShortCircuitsDiff ==
    results.ran =>
        \A k \in 1..Len(wt.steps) :
            (Opens(k) /\ StepAt(k).contentHash # NoHash /\ StoredRangeMatches(k))
                => /\ VerdictAt(k).status = "fresh"
                   /\ VerdictAt(k).resolvedLines = <<>>
                   /\ \A c \in CallsFor(k) : c.op # "diff"

C3_Witness ==
    /\ results.ran
    /\ GitUsable
    /\ \E k \in 1..Len(wt.steps) :
          /\ Opens(k) /\ StepAt(k).contentHash # NoHash /\ StoredRangeMatches(k)
          /\ HunksFor(k) # <<>>
          /\ VerdictAt(k).status = "fresh"

\* C4: a step with no contentHash whose file opens is fresh, whatever the
\* file holds, whatever range is stored and whatever git says; the only
\* lookup made for it is opening the file.
C4_NoHashIsFresh ==
    results.ran =>
        \A k \in 1..Len(wt.steps) :
            (Opens(k) /\ StepAt(k).contentHash = NoHash)
                => /\ VerdictAt(k).status = "fresh"
                   /\ VerdictAt(k).resolvedLines = <<>>
                   /\ \A c \in CallsFor(k) : c.op = "open"

C4_Witness ==
    /\ results.ran
    /\ GitUsable
    /\ \E k \in 1..Len(wt.steps) :
          /\ Opens(k) /\ StepAt(k).contentHash = NoHash
          /\ StepAt(k).lines[1] > Len(LinesOf(k))
          /\ StepAt(k).symbol # ""
          /\ HunksFor(k) # <<>>
          /\ VerdictAt(k).status = "fresh"

\* C5: when the stored fingerprint does not match at the stored range, git
\* is usable and the hunk list of the step's path is not empty, the verdict
\* is git-resolved if the fingerprint at the clamped remapped range is the
\* stored one and drifted if not, and resolvedLines is that range either
\* way; when git is not usable no verdict is git-resolved.
C5_DiffTierVerdict ==
    results.ran =>
        /\ \A k \in 1..Len(wt.steps) :
              DiffTierDecides(k) =>
                  LET r == ClampedRemap(k)
                      there == Hash(getText(LinesOf(k), r[1] - 1, r[2] - 1))
                  IN  /\ VerdictAt(k).resolvedLines = r
                      /\ VerdictAt(k).status =
                            IF there = StepAt(k).contentHash THEN "git-resolved" ELSE "drifted"
        /\ ~GitUsable => \A k \in 1..Len(wt.steps) : VerdictAt(k).status # "git-resolved"

C5_Witness ==
    /\ results.ran
    /\ \E k \in 1..Len(wt.steps) :
          /\ DiffTierDecides(k)
          /\ VerdictAt(k).status = "drifted"
          /\ VerdictAt(k).resolvedLines # <<>>
          /\ VerdictAt(k).resolvedLines # StepAt(k).lines

\* C6: when the diff tier finds hunks for a step, the verdict is the diff
\* tier's and the symbol provider is not asked for that step, even if the
\* remapped fingerprint does not match and the symbol exists; the symbol
\* provider is asked only when git is not usable or there are no hunks.
C6_DiffTierBeforeSymbolTier ==
    results.ran =>
        \A k \in 1..Len(wt.steps) :
            /\ DiffTierDecides(k) =>
                  /\ VerdictAt(k).detail \in {"Git resolved", "Git remapped"}
                  /\ \A c \in CallsFor(k) : c.op # "symbols"
            /\ (\E c \in CallsFor(k) : c.op = "symbols") =>
                  (~GitUsable \/ HunksFor(k) = <<>>)

RECURSIVE NamesIn(_)
\* the names of all declarations of a symbol tree
NamesIn(syms) ==
    IF syms = <<>> THEN {}
    ELSE {Head(syms).name} \cup NamesIn(Head(syms).children) \cup NamesIn(Tail(syms))

C6_Witness ==
    /\ results.ran
    /\ \E k \in 1..Len(wt.steps) :
          /\ DiffTierDecides(k)
          /\ StepAt(k).symbol \in NamesIn(symbols[StepAt(k).file].syms)
          /\ VerdictAt(k).detail = "Git remapped"

NoSuchDeclaration(k) ==
    \/ StepAt(k).symbol = ""
    \/ /\ symbols[StepAt(k).file].kind # "error"
       /\ StepAt(k).symbol \notin NamesIn(symbols[StepAt(k).file].syms)

\* C7: when the stored fingerprint does not match, the diff tier is not
\* attempted or finds no hunks, and the step has no symbol or no declaration
\* of the file has that name, the verdict is drifted with no resolved range.
C7_FallbackIsDriftedWithoutRange ==
    results.ran =>
        \A k \in 1..Len(wt.steps) :
            (StoredRangeMismatches(k) /\ (~GitUsable \/ HunksFor(k) = <<>>)
                 /\ NoSuchDeclaration(k))
                => /\ VerdictAt(k).status = "drifted"
                   /\ VerdictAt(k).resolvedLines = <<>>

C7_Witness ==
    /\ results.ran
    /\ \E k \in 1..Len(wt.steps) :
          /\ StoredRangeMismatches(k)
          /\ StepAt(k).symbol # ""
          /\ symbols[StepAt(k).file].kind = "list"
          /\ NoSuchDeclaration(k)
          /\ VerdictAt(k).status = "drifted"
          /\ VerdictAt(k).resolvedLines = <<>>

\* the hunk that edit i of the diff prints starts at old line rmScript[i].pos
\* and changes the line count by ins - del
DeltaUpTo(oldEnd) ==
    SumSeq([i \in 1..Len(rmScript) |->
               IF rmScript[i].pos <= oldEnd THEN rmScript[i].ins - rmScript[i].del ELSE 0])

\* C8: for a range oldStart <= oldEnd and hunks in ascending order,
\* remapLineRange returns (oldStart + d, oldEnd + d), d being the sum of
\* newCount - oldCount over the hunks with hunk.oldStart <= oldEnd; a range
\* after a single +3 hunk moves by 3, a range before every hunk stays.
C8_RemapAddsDeltasUpToRangeEnd ==
    /\ rmOut # <<>> =>
          rmOut = <<rmRange[1] + DeltaUpTo(rmRange[2]), rmRange[2] + DeltaUpTo(rmRange[2])>>
    /\ remapLineRange(20, 22, <<[oldStart |-> 10, oldCount |-> 2,
                                 newStart |-> 10, newCount |-> 5]>>) = <<23, 25>>
    /\ remapLineRange(1, 3, <<[oldStart |-> 10, oldCount |-> 2,
                               newStart |-> 10, newCount |-> 5]>>) = <<1, 3>>

C8_Witness ==
    /\ rmOut # <<>>
    /\ Len(rmScript) = 2
    /\ rmScript[1].del > 0
    /\ rmScript[1].pos <= rmRange[2]
    /\ rmScript[1].pos + rmScript[1].del > rmRange[1]
    /\ rmScript[1].ins # rmScript[1].del
    /\ rmScript[2].pos > rmRange[2]
    /\ rmOut # rmRange

\* no edit deletes a line of the range or puts a line between two of them
RangeUntouched ==
    \A i \in 1..Len(rmScript) :
        LET e == rmScript[i]
        IN  IF e.del > 0
            THEN e.pos + e.del - 1 < rmRange[1] \/ e.pos > rmRange[2]
            ELSE e.pos < rmRange[1] \/ e.pos >= rmRange[2]

\* C9: when no hunk of the zero-context diff touches the queried range,
\* remapLineRange returns the line numbers that the first and the last line
\* of the range have in the new file.
C9_RemapExactWhenUntouched ==
    (rmOut # <<>> /\ RangeUntouched) =>
        rmOut = <<NewLineOf(rmOldLen, rmScript, rmRange[1]),
                  NewLineOf(rmOldLen, rmScript, rmRange[2])>>

WithinFile(range, lines) == 1 <= range[1] /\ range[1] <= range[2] /\ range[2] <= Len(lines)

\* C10: the resolvedLines of every diff-tier verdict of checkStaleness and
\* the lines of every step that repairWalkthrough rewrites from hunks
\* satisfy 1 <= start <= end <= line count of the current file.
C10_RemappedRangesWithinFile ==
    /\ results.ran =>
          \A k \in 1..Len(wt.steps) :
              VerdictAt(k).detail \in {"Git resolved", "Git remapped"}
                  => WithinFile(VerdictAt(k).resolvedLines, LinesOf(k))
    /\ (repairOut.ran /\ ~repairOut.threw) =>
          \A k \in 1..Len(repairOut.walkthrough.steps) :
              LET new == repairOut.walkthrough.steps[k]
              IN  (new.lines # wt.steps[k].lines \/ repairOut.stepsFixed = Len(wt.steps))
                      => WithinFile(new.lines, files[new.file].lines)

(***************************************************************************)
(* Properties of repairWalkthrough                                         *)
(***************************************************************************)
\* the last repairWalkthrough call was given the current walkthrough (the
\* current walkthrough is not one that a repair produced)
RepairedCurrent == repairOut.ran /\ ~saved.ran
\* the outcome of a repair that had nothing to do
NoopOutcome ==
    /\ ~repairOut.threw
    /\ repairOut.repaired
    /\ repairOut.stepsFixed = 0
    /\ repairOut.stepsUnresolvable = 0
    /\ repairOut.walkthrough = wt
    /\ repairCalls = <<>>
ValidRange(step) == step.lines[1] >= 1 /\ step.lines[1] <= step.lines[2]

\* C11: when the walkthrough has no commitSha or HEAD cannot be obtained (git
\* fails, or no workspace), repairWalkthrough returns repaired = false,
\* stepsFixed = 0, stepsUnresolvable = the number of steps and the walkthrough
\* as it was given, and makes no lookup at all: it opens no file and asks git
\* neither for renames nor for a diff.
C11_TotalFailureLeavesWalkthroughAlone ==
    (repairOut.ran /\ (wt.commitSha = "" \/ ~HeadObtainable)) =>
        /\ ~repairOut.threw
        /\ ~repairOut.repaired
        /\ repairOut.stepsFixed = 0
        /\ repairOut.stepsUnresolvable = Len(wt.steps)
        /\ repairOut.walkthrough = wt
        /\ repairCalls = <<>>

\* two steps whose files open, a commitSha, a workspace, and git failing
C11_Witness ==
    /\ repairOut.ran
    /\ workspace /\ headSha = "" /\ wt.commitSha = "r1"
    /\ Len(wt.steps) = 2
    /\ \A k \in 1..2 : Opens(k)
    /\ repairOut.stepsUnresolvable = 2

\* C12: a repair of a walkthrough whose commitSha equals HEAD returns
\* repaired = true, stepsFixed = 0, stepsUnresolvable = 0 and the walkthrough
\* as given, without any lookup, whatever the working copy holds; and so,
\* once a repair result has been written back and become the current
\* walkthrough, every further repair (HEAD unchanged) returns that
\* walkthrough again with nothing fixed and nothing unresolved.
C12_SameRevisionRepairIsNoop ==
    /\ (RepairedCurrent /\ wt.commitSha # "" /\ HeadObtainable /\ wt.commitSha = headSha)
           => NoopOutcome
    /\ saved.ran => /\ wt = saved.walkthrough
                    /\ repairOut = saved \/ NoopOutcome

\* a repair fixed one step and left one unresolved, was written back, and
\* the walkthrough was then repaired again
C12_Witness ==
    /\ saved.ran
    /\ saved.stepsFixed > 0 /\ saved.stepsUnresolvable > 0
    /\ repairOut.ran /\ repairOut # saved
    /\ repairOut.walkthrough = saved.walkthrough

\* C13: a repairWalkthrough call that gets past the early exits (commitSha
\* set, HEAD obtainable and different) returns, when every step has a valid
\* line range, and whenever it returns the walkthrough it returns has
\* commitSha = HEAD, whatever happened to the steps.
C13_RepairRebasesToHead ==
    (RepairedCurrent /\ GitUsable) =>
        /\ (\A k \in 1..Len(wt.steps) : ValidRange(StepAt(k))) => ~repairOut.threw
        /\ ~repairOut.threw => repairOut.walkthrough.commitSha = headSha

\* every step unresolved, repaired = false, and still the new commitSha
C13_Witness ==
    /\ RepairedCurrent /\ GitUsable /\ ~repairOut.threw
    /\ Len(wt.steps) = 2
    /\ repairOut.stepsUnresolvable = 2
    /\ ~repairOut.repaired
    /\ wt.commitSha = "r1" /\ repairOut.walkthrough.commitSha = "r2"

\* the path step k's file has at HEAD: where git reports a rename of it, when
\* the file existed at commitSha, and its own path otherwise
ResolvedPath(k) ==
    LET p == StepAt(k).file
        out == renames[p].stdout
        to == {out[j].to : j \in {n \in 1..Len(out) : out[n].status = "R" /\ out[n].from = p}}
    IN  IF existsOld[p] /\ to # {} THEN CHOOSE q \in to : TRUE ELSE p
ResolvedOpens(k) == files[ResolvedPath(k)].exists
ResolvedLines(k) == files[ResolvedPath(k)].lines
\* the fingerprint of the current content at the stored range clamped to the file
FingerprintInPlace(k) ==
    Hash(getText(ResolvedLines(k), Max(0, StepAt(k).lines[1] - 1),
                 Min(Len(ResolvedLines(k)) - 1, StepAt(k).lines[2] - 1)))
\* the step needs no change: same path, same fingerprint
MatchesInPlace(k) ==
    /\ ResolvedOpens(k)
    /\ ResolvedPath(k) = StepAt(k).file
    /\ FingerprintInPlace(k) = StepAt(k).contentHash
Rewritten(k) == ResolvedOpens(k) /\ ~MatchesInPlace(k)
\* the first step that had to ask for the hunks of step k's resolved path
FirstToAsk(k) ==
    CHOOSE n \in 1..k :
        /\ Rewritten(n) /\ ResolvedPath(n) = ResolvedPath(k)
        /\ \A m \in 1..(n - 1) : ~(Rewritten(m) /\ ResolvedPath(m) = ResolvedPath(k))
\* the hunks available to step k: the cached ones of its resolved path
HunksAvailable(k) == parseHunkHeaders(diffOut[StepAt(FirstToAsk(k)).file])
RemappedAndClamped(k) ==
    LET new == remapLineRange(StepAt(k).lines[1], StepAt(k).lines[2], HunksAvailable(k))
        start == Max(1, new[1])
    IN  <<start, Min(Len(ResolvedLines(k)), Max(start, new[2]))>>
RepairedStep(k) == repairOut.walkthrough.steps[k]
\* a repair of the current walkthrough went through the loop and returned
RepairLoopReturned == RepairedCurrent /\ GitUsable /\ ~repairOut.threw

\* C14: a step that is not left unchanged comes out, when hunks are
\* available, with the resolved path, the remapped and clamped range and the
\* fingerprint of the current content at that range; and when no hunks are
\* available, with the resolved path, its original range and the fingerprint
\* of the current content at the original range clamped to the file.
C14_RewrittenStepShape ==
    RepairLoopReturned =>
        \A k \in 1..Len(wt.steps) :
            Rewritten(k) =>
                /\ RepairedStep(k).file = ResolvedPath(k)
                /\ IF HunksAvailable(k) # <<>>
                   THEN /\ RepairedStep(k).lines = RemappedAndClamped(k)
                        /\ RepairedStep(k).contentHash =
                               Hash(getText(ResolvedLines(k), RemappedAndClamped(k)[1] - 1,
                                            RemappedAndClamped(k)[2] - 1))
                   ELSE /\ RepairedStep(k).lines = StepAt(k).lines
                        /\ RepairedStep(k).contentHash = FingerprintInPlace(k)

\* a step whose file was renamed is moved by a hunk and gets the new path, the
\* new range and a new fingerprint
C14_Witness ==
    /\ RepairLoopReturned
    /\ \E k \in 1..Len(wt.steps) :
           /\ Rewritten(k) /\ ResolvedPath(k) # StepAt(k).file /\ HunksAvailable(k) # <<>>
           /\ RepairedStep(k).file # StepAt(k).file
           /\ RepairedStep(k).lines # StepAt(k).lines
           /\ RepairedStep(k).contentHash # StepAt(k).contentHash

FixedSteps == {k \in 1..Len(wt.steps) : Rewritten(k) /\ HunksAvailable(k) # <<>>}
PathOnlySteps == {k \in 1..Len(wt.steps) : Rewritten(k) /\ HunksAvailable(k) = <<>>}
UnopenableSteps == {k \in 1..Len(wt.steps) : ~ResolvedOpens(k)}

\* C15: the summary is the count of the per-step results: stepsFixed counts
\* the steps rewritten with hunks, stepsUnresolvable the steps whose resolved
\* file does not open (left unchanged) plus the steps rewritten without
\* hunks, no step is counted twice, a step that matches in place is left
\* unchanged and counted in neither, and repaired is true exactly when
\* stepsFixed > 0 or stepsUnresolvable = 0.
C15_SummaryCountsStepResults ==
    RepairLoopReturned =>
        /\ repairOut.stepsFixed = Cardinality(FixedSteps)
        /\ repairOut.stepsUnresolvable =
               Cardinality(UnopenableSteps) + Cardinality(PathOnlySteps)
        /\ repairOut.stepsFixed + repairOut.stepsUnresolvable <= Len(wt.steps)
        /\ \A k \in 1..Len(wt.steps) :
               (MatchesInPlace(k) \/ ~ResolvedOpens(k)) => RepairedStep(k) = StepAt(k)
        /\ repairOut.repaired <=>
               (repairOut.stepsFixed > 0 \/ repairOut.stepsUnresolvable = 0)

\* one step fixed and one unopenable: repaired although a step is unresolved
C15_Witness ==
    /\ RepairLoopReturned
    /\ Len(wt.steps) = 2
    /\ Cardinality(FixedSteps) = 1 /\ Cardinality(UnopenableSteps) = 1
    /\ repairOut.stepsFixed = 1 /\ repairOut.stepsUnresolvable = 1
    /\ repairOut.repaired

\* a call of one of the two core operations returned in this step
CoreCallStep == (results' # results \/ repairOut' # repairOut) /\ saved' = saved

\* C16: repairWalkthrough returns as many steps as it was given, in the same
\* order, each with the subtitle, symbol and duration it had, under the same
\* title and description; only file, lines, contentHash and commitSha may
\* differ.  A checkStaleness or repairWalkthrough call leaves the walkthrough
\* it was given as it was.
C16_RepairFrame ==
    /\ [](RepairedCurrent /\ ~repairOut.threw =>
             /\ repairOut.walkthrough.title = wt.title
             /\ repairOut.walkthrough.description = wt.description
             /\ Len(repairOut.walkthrough.steps) = Len(wt.steps)
             /\ \A k \in 1..Len(wt.steps) :
                    /\ RepairedStep(k).subtitle = StepAt(k).subtitle
                    /\ RepairedStep(k).symbol = StepAt(k).symbol
                    /\ RepairedStep(k).duration = StepAt(k).duration)
    /\ [][CoreCallStep => wt' = wt]_vars

\* a step naming a symbol was moved and given a new fingerprint
C16_Witness ==
    /\ RepairLoopReturned
    /\ \E k \in 1..Len(wt.steps) :
           /\ StepAt(k).symbol = "f" /\ RepairedStep(k).symbol = "f"
           /\ RepairedStep(k).lines # StepAt(k).lines
           /\ RepairedStep(k).contentHash # StepAt(k).contentHash

DiffCalls(log, p) ==
    Cardinality({n \in 1..Len(log) : log[n].op = "diff" /\ log[n].file = p})

\* C17: within one checkStaleness or repairWalkthrough call
\* computeLineMappings is invoked at most once for a path, also when several
\* steps name the path and when the answer was the empty list; and each call
\* fetches what it needs itself: a checkStaleness call has asked for the diff
\* of every path it took to the diff tier, a repairWalkthrough call for the
\* hunks of every resolved path it rewrote a step of.
C17_DiffFetchedOncePerPathPerCall ==
    /\ \A p \in Paths : DiffCalls(staleCalls, p) <= 1 /\ DiffCalls(repairCalls, p) <= 1
    /\ (results.ran /\ GitUsable) =>
           \A k \in 1..Len(wt.steps) :
               StoredRangeMismatches(k) => DiffCalls(staleCalls, StepAt(k).file) = 1
    /\ RepairLoopReturned =>
           \A k \in 1..Len(wt.steps) :
               Rewritten(k) => DiffCalls(repairCalls, StepAt(FirstToAsk(k)).file) = 1

\* two steps on one path whose diff is empty, both taken to the diff tier by
\* a checkStaleness call and both rewritten by a repairWalkthrough call
C17_Witness ==
    /\ results.ran /\ RepairLoopReturned
    /\ Len(wt.steps) = 2
    /\ StepAt(1).file = StepAt(2).file /\ StepAt(1) # StepAt(2)
    /\ HunksFor(1) = <<>>
    /\ StoredRangeMismatches(1) /\ StoredRangeMismatches(2)
    /\ Rewritten(1) /\ Rewritten(2)
    /\ DiffCalls(staleCalls, StepAt(1).file) = 1
    /\ DiffCalls(repairCalls, StepAt(1).file) = 1

(***************************************************************************)
(* Properties of the loader                                                *)
(***************************************************************************)
\* a step with a string file, a pair of numbers as lines and a string subtitle
WellFormedStep(step) ==
    /\ step.isObject
    /\ step.file.type = "string"
    /\ step.lines.isArray /\ Len(step.lines.items) = 2
    /\ \A j \in 1..2 : step.lines.items[j].type = "number"
    /\ step.subtitle.type = "string"
\* a file that can be read and parsed and holds string title and
\* description and a non-empty list of well-formed steps
Acceptable(file) ==
    /\ file.readable /\ file.parses /\ file.data.isObject
    /\ file.data.title.type = "string"
    /\ file.data.description.type = "string"
    /\ file.data.steps.isArray
    /\ file.data.steps.items # <<>>
    /\ \A k \in 1..Len(file.data.steps.items) : WellFormedStep(file.data.steps.items[k])
\* the places in disk of the acceptable files, in order
AcceptableUris == SelectSeq([k \in 1..Len(disk) |-> k], LAMBDA k : Acceptable(disk[k]))

\* C18: loadWalkthrough returns null for a file that is not acceptable (title
\* or description not a string, steps not a list or empty, a step without a
\* string file, a pair of numbers as lines or a string subtitle) and returns
\* the parsed document itself for an acceptable one; discoverWalkthroughs
\* returns exactly the acceptable files, each with its document, in order.
C18_LoaderRejectsMalformed ==
    /\ loaded.ran =>
           IF loaded.fsPath \in 1..Len(disk) /\ Acceptable(disk[loaded.fsPath])
           THEN ~loaded.isNull /\ loaded.walkthrough = disk[loaded.fsPath].data
           ELSE loaded.isNull
    /\ discovered.ran =>
           discovered.files =
               [j \in 1..Len(AcceptableUris) |->
                   [uri |-> AcceptableUris[j], walkthrough |-> disk[AcceptableUris[j]].data]]

\* a file whose second step has a one-element lines is refused by both
\* operations, and the valid file after it is still discovered
C18_Witness ==
    /\ discovered.ran /\ loaded.ran
    /\ Len(disk) = 2
    /\ disk[1].readable /\ disk[1].parses /\ disk[1].data.steps.isArray
    /\ Len(disk[1].data.steps.items) = 2
    /\ WellFormedStep(disk[1].data.steps.items[1])
    /\ disk[1].data.steps.items[2].lines.isArray
    /\ Len(disk[1].data.steps.items[2].lines.items) = 1
    /\ Acceptable(disk[2])
    /\ loaded.fsPath = 1 /\ loaded.isNull
    /\ Len(discovered.files) = 1 /\ discovered.files[1].uri = 2

RangeOf(step) == <<step.lines.items[1].num, step.lines.items[2].num>>
Invariant3(data) ==
    \A k \in 1..Len(data.steps.items) :
        /\ RangeOf(data.steps.items[k])[1] >= 1
        /\ RangeOf(data.steps.items[k])[1] <= RangeOf(data.steps.items[k])[2]

\* C19: every walkthrough the loader accepts satisfies lines[0] >= 1 and
\* lines[0] <= lines[1] in every step.
C19_AcceptedRangesValid ==
    /\ (loaded.ran /\ ~loaded.isNull) => Invariant3(loaded.walkthrough)
    /\ discovered.ran =>
           \A j \in 1..Len(discovered.files) : Invariant3(discovered.files[j].walkthrough)

(***************************************************************************)
(* Properties of getFileRenames                                            *)
(***************************************************************************)
\* the rename records git printed that name the queried path at either end
RecordsNaming(p) ==
    {renames[p].stdout[n] : n \in {j \in 1..Len(renames[p].stdout) :
        /\ renames[p].stdout[j].status = "R"
        /\ renames[p].stdout[j].from = p \/ renames[p].stdout[j].to = p}}

\* C20: a path returned by getFileRenames(fromSha, toSha, path) is the name
\* at toSha of a rename record that names the queried path at one end,
\* whichever end that is; when git fails or there is no workspace the answer
\* is null.
C20_RenameLookupGivesNameAtHead ==
    rnOut.asked =>
        /\ rnOut.path # "" => rnOut.path \in {l.to : l \in RecordsNaming(rnPath)}
        /\ (~workspace \/ renames[rnPath].failed) => rnOut.path = ""

(***************************************************************************)
(* Properties of the symbol tier                                           *)
(***************************************************************************)
RECURSIVE PreOrder(_)
\* the declarations of a symbol tree, a parent before its children and an
\* earlier sibling's subtree before a later sibling
PreOrder(syms) ==
    IF syms = <<>> THEN <<>>
    ELSE <<Head(syms)>> \o PreOrder(Head(syms).children) \o PreOrder(Tail(syms))

\* the 1-indexed start line of the first declaration with that name
FirstDeclarationLine(syms, name) ==
    LET q == PreOrder(syms)
        first == CHOOSE i \in 1..Len(q) :
                     q[i].name = name /\ \A j \in 1..(i - 1) : q[j].name # name
    IN  q[first].line + 1

DeclarationExists(k) ==
    /\ StepAt(k).symbol # ""
    /\ symbols[StepAt(k).file].kind = "list"
    /\ StepAt(k).symbol \in NamesIn(symbols[StepAt(k).file].syms)

\* C22: when the stored fingerprint does not match, the diff tier is not
\* attempted or finds no hunks, and some declaration of the current file has
\* the step's symbol as its name, the verdict is drifted with resolvedLines
\* = (d, d + (lines[1] - lines[0])), d being the 1-indexed start line of the
\* first declaration of that name in depth-first pre-order.
C22_SymbolFallbackRange ==
    results.ran =>
        \A k \in 1..Len(wt.steps) :
            (StoredRangeMismatches(k) /\ (~GitUsable \/ HunksFor(k) = <<>>)
                 /\ DeclarationExists(k))
                => LET d == FirstDeclarationLine(symbols[StepAt(k).file].syms,
                                                 StepAt(k).symbol)
                   IN  /\ VerdictAt(k).status = "drifted"
                       /\ VerdictAt(k).resolvedLines
                              = <<d, d + (StepAt(k).lines[2] - StepAt(k).lines[1])>>

\* the name is declared twice, the nested declaration coming first, and the
\* stored range spans more than one line
C22_Witness ==
    /\ results.ran
    /\ \E k \in 1..Len(wt.steps) :
          /\ StoredRangeMismatches(k)
          /\ GitUsable /\ HunksFor(k) = <<>>
          /\ DeclarationExists(k)
          /\ Len(symbols[StepAt(k).file].syms) = 2
          /\ StepAt(k).lines[2] > StepAt(k).lines[1]
          /\ VerdictAt(k).resolvedLines = <<2, 2 + (StepAt(k).lines[2] - StepAt(k).lines[1])>>

(***************************************************************************)
(* Properties of repairWalkthrough: the steps among themselves             *)
(***************************************************************************)
\* what repairWalkthrough returns for step k as the only step of the
\* walkthrough, against the same revisions and the same files
RepairedAlone(k) == repairWalkthrough([wt EXCEPT !.steps = <<StepAt(k)>>]).result

\* C23: the repaired form of each step, and whether it counts as fixed or
\* as unresolved, is what a repair of that step alone gives, whatever other
\* steps the walkthrough holds and wherever the step stands among them; a
\* step that is remapped is remapped with the hunks of its own file.
C23_StepsRepairedIndependently ==
    RepairLoopReturned =>
        /\ \A k \in 1..Len(wt.steps) :
               /\ RepairedStep(k) = RepairedAlone(k).walkthrough.steps[1]
               /\ (Rewritten(k) /\ RepairedStep(k).lines # StepAt(k).lines) =>
                      RepairedStep(k).lines =
                          LET new == remapLineRange(StepAt(k).lines[1], StepAt(k).lines[2],
                                                    HunksFor(k))
                              start == Max(1, new[1])
                          IN  <<start, Min(Len(ResolvedLines(k)), Max(start, new[2]))>>
        /\ repairOut.stepsFixed =
               SumSeq([k \in 1..Len(wt.steps) |-> RepairedAlone(k).stepsFixed])
        /\ repairOut.stepsUnresolvable =
               SumSeq([k \in 1..Len(wt.steps) |-> RepairedAlone(k).stepsUnresolvable])

\* a step without a fingerprint whose file opens under the path it stores
WeakAnchorInPlace(k) ==
    /\ StepAt(k).contentHash = NoHash
    /\ ResolvedOpens(k)
    /\ ResolvedPath(k) = StepAt(k).file

\* C24: repairWalkthrough returns a step that has no contentHash, whose
\* file opens and whose path was not renamed, as it was (no contentHash
\* added, lines not moved) and counts it neither as fixed nor as unresolved,
\* whether or not there are hunks for its file.
C24_WeakAnchorLeftAlone ==
    RepairLoopReturned =>
        \A k \in 1..Len(wt.steps) :
            WeakAnchorInPlace(k) =>
                /\ RepairedStep(k) = StepAt(k)
                /\ RepairedAlone(k).stepsFixed = 0
                /\ RepairedAlone(k).stepsUnresolvable = 0

\* the verdicts of a checkStaleness call on the walkthrough the last repair
\* returned, against the same files and the same HEAD
Recheck ==
    checkStaleness(repairOut.walkthrough.steps, repairOut.walkthrough.commitSha).out
RepairedOpens(k) == files[RepairedStep(k).file].exists

\* C25 as stated: after a repairWalkthrough call that got past the early
\* exits, checkStaleness on the returned walkthrough (same files, same HEAD)
\* gives fresh for every step whose file opens, the steps counted as
\* unresolved included, and missing for the steps whose file does not open.
C25_RepairThenCheckIsFresh ==
    RepairLoopReturned =>
        \A k \in 1..Len(repairOut.walkthrough.steps) :
            Recheck[k].status = IF RepairedOpens(k) THEN "fresh" ELSE "missing"

\* C25 amended: after such a call checkStaleness on the returned walkthrough
\* gives fresh for every step whose resolved path (the renamed path, if git
\* reports a rename) opens, the steps counted as unresolved for want of
\* hunks included; a step whose resolved path does not open is returned
\* unchanged and is missing when the path it stores does not open either;
\* so when no step's file was renamed, exactly the steps whose file does
\* not open are non-fresh.
C25_RepairThenCheckIsFreshWhereResolved ==
    RepairLoopReturned =>
        /\ \A k \in 1..Len(wt.steps) :
               /\ ResolvedOpens(k) => Recheck[k].status = "fresh"
               /\ ~ResolvedOpens(k) =>
                      /\ RepairedStep(k) = StepAt(k)
                      /\ ~Opens(k) => Recheck[k].status = "missing"
        /\ (\A k \in 1..Len(wt.steps) : ResolvedPath(k) = StepAt(k).file) =>
               \A k \in 1..Len(wt.steps) :
                   Recheck[k].status = IF RepairedOpens(k) THEN "fresh" ELSE "missing"

\* one step was moved by a hunk, one was given a new fingerprint without
\* hunks, and both are fresh afterwards
C25_Witness ==
    /\ RepairLoopReturned
    /\ \E j, k \in 1..Len(wt.steps) :
           /\ Rewritten(j) /\ HunksAvailable(j) # <<>>
           /\ RepairedStep(j).lines # StepAt(j).lines
           /\ StepAt(j).contentHash # NoHash
           /\ Recheck[j].status = "fresh"
           /\ Rewritten(k) /\ HunksAvailable(k) = <<>>
           /\ RepairedStep(k).contentHash # StepAt(k).contentHash
           /\ Recheck[k].status = "fresh"

(***************************************************************************)
(* Properties of the playback engine                                       *)
(***************************************************************************)
Loaded == engine.walkthrough # NoWalkthrough
LastIndex == IF Loaded THEN Len(engine.walkthrough.steps) - 1 ELSE -1
TimerPendingIffPlaying == (timers # {}) <=> (engine.state = "playing")
AtMostOneTimer == Cardinality(timers) <= 1

\* C28: after any sequence of load, play, pause, togglePlayback, next, prev,
\* goTo, setSpeed, cycleSpeed, stop and timer firings, an unfired
\* auto-advance timer is pending if and only if the state is playing, at
\* most one is pending, and the state is idle if and only if no walkthrough
\* is loaded.
C28_PlaybackTimerInvariant ==
    /\ TimerPendingIffPlaying
    /\ AtMostOneTimer
    /\ (engine.state = "idle") <=> ~Loaded

AutoPlaying == ~UserActive /\ Loaded
PausedAtEnd ==
    /\ Loaded
    /\ engine.state = "paused"
    /\ engine.currentIndex = LastIndex
    /\ timers = {}

\* C29: once the engine is playing and no further command is issued, each
\* timer firing that finds a later step advances currentIndex by exactly
\* one and keeps playing, the firing at the last step pauses there,
\* currentIndex never exceeds the last index and never goes back to 0, and
\* eventually the engine is paused at the last step with no timer pending.
C29_AutoPlayReachesEndAndStops ==
    /\ [](AutoPlaying => engine.currentIndex \in autoplayFrom..LastIndex)
    /\ [][AutoPlaying =>
             IF engine.currentIndex < LastIndex
             THEN /\ engine'.currentIndex = engine.currentIndex + 1
                  /\ engine'.state = "playing"
                  /\ engine'.walkthrough = engine.walkthrough
             ELSE /\ engine'.currentIndex = engine.currentIndex
                  /\ engine'.state = "paused"
                  /\ timers' = {}]_vars
    /\ (~UserActive) ~> PausedAtEnd

\* left playing at the first of three steps, the engine has stopped at the last
C29_Witness ==
    /\ autoplayFrom = 0
    /\ Loaded
    /\ Len(engine.walkthrough.steps) = 3
    /\ PausedAtEnd

(***************************************************************************)
(* Properties of the AI tools                                              *)
(***************************************************************************)
\* the absolute path lies in the directory root or is root itself
Inside(segs, root) == Len(root) <= Len(segs) /\ SubSeq(segs, 1, Len(root)) = root
\* where the path argument leads from the workspace root
Target == pathResolve(toolRoot, toolPath)

\* C30: the path that list_files, read_file or get_symbols opens lies
\* inside the workspace root; a path argument that resolves to a place
\* outside the root, a sibling directory whose name begins with the root's
\* name included, is rejected with "Access denied" and nothing is opened.
C30_ToolsConfinedToWorkspace ==
    (toolOut.called /\ workspace) =>
        /\ toolOut.opened => Inside(toolOut.path, toolRoot)
        /\ ~Inside(Target, toolRoot) =>
               /\ toolOut.error = "Access denied"
               /\ ~toolOut.opened

(***************************************************************************)
(* Properties of the recorder                                              *)
(***************************************************************************)
\* the captureStep calls that returned true
Captured == {n \in 1..Len(captures) : captures[n].pc = "done" /\ captures[n].result}

AppendedWhileRecording ==
    \A n \in 1..Len(captures) :
        captures[n].pushed =>
            /\ captures[n].pushedWhile.recording
            /\ captures[n].pushedWhile.session = captures[n].session

InFile(n, walkthrough) ==
    \E k \in 1..Len(walkthrough.steps) :
        /\ walkthrough.steps[k].subtitle = captures[n].step.subtitle
        /\ walkthrough.steps[k].file = captures[n].step.file
        /\ walkthrough.steps[k].lines = captures[n].step.lines
        /\ walkthrough.steps[k].contentHash = captures[n].step.contentHash

CapturedStepsAreWritten ==
    \A j \in 1..Len(written) :
        \A n \in Captured :
            captures[n].session = written[j].session =>
                written[j].wrote /\ InFile(n, written[j].walkthrough)

NothingFromAnEarlierSession ==
    recorder.recording =>
        \A k \in 1..Len(recorder.steps) :
            captures[recorder.steps[k].subtitle].session = session

\* C27: a step is appended only while the recorder is recording, in the
\* session its captureStep call was made in; once the stop that ended a
\* session has written its file, every step of that session for which
\* captureStep returned true is in it; and the steps of a running session
\* were all captured in that session.
C27_RecordingSessionIntegrity ==
    /\ AppendedWhileRecording
    /\ CapturedStepsAreWritten
    /\ NothingFromAnEarlierSession

(***************************************************************************)
(* Properties of the extension                                             *)
(***************************************************************************)
Outdated(staleResults) ==
    \E j \in 1..Len(staleResults) : staleResults[j].status \in {"drifted", "missing"}

\* the last load was of a walkthrough whose check was clean, or the user saw
\* the warning for it and chose to continue
WarnedBeforeLoad ==
    (lastLoad.file # NoTourFile /\ Outdated(lastLoad.checked)) => lastLoad.consent

AutoRepairOfferedIffCommitSha ==
    \A w \in shown : w.autoRepair <=> w.walkthrough.commitSha # ""

Playing == engine.walkthrough # NoWalkthrough /\ engine.state # "idle"

GitResolvedFor(staleResults, index) ==
    LET found == staleResultFor(staleResults, index)
    IN  found # <<>> /\ found[1].status = "git-resolved" /\ found[1].resolvedLines # <<>>

\* whenever the engine moves, a git-resolved verdict for the step it shows
\* decides the lines navigated to
GitResolvedNavigation ==
    [][(engine' # engine /\ Playing' /\ GitResolvedFor(currentStaleResults', engine'.currentIndex))
         => navigated'.lines = staleResultFor(currentStaleResults', engine'.currentIndex)[1].resolvedLines]_vars

\* C21: the engine loads a walkthrough whose latest check reports a drifted
\* or missing step only after the user saw the warning for it and chose to
\* continue; the warning offers Auto-Repair exactly when the walkthrough
\* has a commitSha; and a git-resolved verdict for the current step makes
\* navigation use its resolvedLines.
C21_WarnBeforePlayback ==
    /\ []WarnedBeforeLoad
    /\ []AutoRepairOfferedIffCommitSha
    /\ GitResolvedNavigation

FileOfLoaded == engine.walkthrough # NoWalkthrough => currentWalkthroughFile = lastLoad.file

ResultsOfLoaded ==
    engine.walkthrough # NoWalkthrough =>
        currentStaleResults =
            checkStaleness(engine.walkthrough.steps, engine.walkthrough.commitSha).out

\* C26: whenever the engine has a walkthrough loaded, currentStaleResults
\* are the verdicts of that walkthrough's steps and currentWalkthroughFile
\* is the file it was loaded from.
C26_PlaybackContextConsistent ==
    /\ FileOfLoaded
    /\ ResultsOfLoaded

====
